---------------------------- MODULE Spec2Model ----------------------------
(***************************************************************************)
(* Model of nxus-data-loaders: the pooled fetch requests                   *)
(* (PooledDataRequest.js), the shared data loader registry                 *)
(* (SharedDataLoaders.js) and the deserializing entity data processor.     *)
(***************************************************************************)
EXTENDS Integers, Sequences, FiniteSets, TLC

(***************************************************************************)
(* Bounds of the model and program constants.                              *)
(***************************************************************************)
MaxRequests == 5          \* PooledRequest objects constructed in one run
MaxStreamLen == 2         \* rows of one response given to the entity processor
MaxMerges == 2            \* runs of the entity processor on one container
MaxReferences == 2        \* referenceDataLoader calls made in one run
MaxLoads == 2             \* load cycles started in one run
MaxCycles == 3            \* request cycles started by the streamed loaders in one run
DefaultLimit == 2         \* getPool: options = {limit: 2, ...options}
errorDelay == 60000       \* const errorDelay = 60 * 1000
unloadedStateBit == 1     \* const unloadedStateBit = 1
errorStateBit == 2        \* const errorStateBit = 2

Contexts == 1..5                             \* PooledDataRequest instances
PoolNames == {"default"}                     \* values of the `pool` option
Undefined == 0                               \* JavaScript undefined

VARIABLES
  pools,          \* PooledRequest.pools: name -> [limit, queued, active]
  requests,       \* the reachable PooledRequest objects: id -> fields
  created,        \* number of PooledRequest objects constructed so far
  dataRequest,    \* PooledDataRequest._dataRequest, per context
  destroyed,      \* contexts whose owner has called destroy() and let go of them
  fetches,        \* the fetch() call of each request, as the transport sees it
  microtasks,     \* promise reaction jobs waiting to run
  canceled        \* history: requests on which cancel() ran while pending

poolVars == <<pools, requests, created, dataRequest, destroyed, fetches, microtasks, canceled>>

VARIABLES
  keyPrefix,      \* DeserializingEntityDataProcessor._config.keyPrefix
  container,      \* this._container[this._property]: a bucket object or Undefined
  bucketObjects,  \* the bucket objects published so far: object id -> entities
  entities,       \* the stream given to the processor: rows [key, entity]
  header,         \* the header given to the processor
  destroyCalls,   \* entity object id -> number of destroy() calls received
  merges,         \* runs of the processor so far
  bucketBefore,   \* history: the bucket as it was when the last run started
  single          \* a DeserializingSingletonDataProcessor and its container

mergeVars == <<keyPrefix, container, bucketObjects, entities, header, destroyCalls,
               merges, bucketBefore, single>>

VARIABLES
  dataLoaders,    \* SharedDataLoaders._dataLoaders: <<Subclass, hash>> -> loader
  specs,          \* the specification objects still in use, by their loader
  loaders,        \* the loader objects constructed so far, in order
  loadCount,      \* number of load cycles started so far
  referenceCount  \* number of referenceDataLoader calls made so far

sharedVars == <<dataLoaders, specs, loaders, loadCount, referenceCount>>

VARIABLES
  streamLoaders,       \* the UpdatingStreamedDataLoader objects, by their number
  sharedEventSources   \* SharedEventSource.js sharedEventSources: url -> hub

loaderVars == <<streamLoaders, sharedEventSources>>

vars == <<poolVars, mergeVars, sharedVars, loaderVars>>

(***************************************************************************)
(* Pooled requests.  The operators below take and return the record `st`   *)
(* of all pool variables, so that a handler is the composition of the      *)
(* calls it makes.                                                         *)
(***************************************************************************)
PoolState ==
  [pools |-> pools, requests |-> requests, created |-> created,
   dataRequest |-> dataRequest, fetches |-> fetches, microtasks |-> microtasks,
   canceled |-> canceled]

Range(f) == {f[x] : x \in DOMAIN f}

\* The requests something still refers to: a pool, a context, a queued
\* reaction, or a transport that can still settle the promise.
Reachable(st) ==
  {r \in DOMAIN st.requests :
     \/ \E n \in DOMAIN st.pools :
          r \in st.pools[n].active \cup Range(st.pools[n].queued)
     \/ r \in Range(st.dataRequest)
     \/ r \in Range(st.microtasks)
     \/ st.requests[r].promise = "pending"}

\* Garbage collection: unreachable request objects leave the heap.
Collect(st) ==
  LET live == Reachable(st)
  IN  [st EXCEPT !.requests = [r \in live |-> @[r]],
                 !.fetches = [r \in live |-> @[r]],
                 !.canceled = @ \cap live]

SetPoolState(st0) ==
  LET st == Collect(st0)
  IN  /\ pools' = st.pools
      /\ requests' = st.requests
      /\ created' = st.created
      /\ dataRequest' = st.dataRequest
      /\ fetches' = st.fetches
      /\ microtasks' = st.microtasks
      /\ canceled' = st.canceled

Remove(seq, x) == SelectSeq(seq, LAMBDA y : y # x)

\* new PooledRequest(context, options); the object's id is its ordinal
NewRequest(st, c, pool) ==
  LET r == st.created + 1
  IN  [st EXCEPT !.created = r,
                 !.requests = (r :> [context |-> c, pool |-> pool, state |-> "",
                                     promise |-> "pending", controller |-> FALSE]) @@ @,
                 !.fetches = (r :> "none") @@ @]

\* PooledRequest.getPool(name): the pool is created on first use
getPool(st, name) ==
  IF name \in DOMAIN st.pools THEN st
  ELSE [st EXCEPT !.pools = (name :> [limit |-> DefaultLimit, queued |-> <<>>, active |-> {}]) @@ @]

\* PooledRequest._updateState(state); the activity event it reports through
\* the context is UI reporting and is left out
UpdateState(st, r, state) ==
  [st EXCEPT !.requests[r].state = state]

\* PooledRequest._start(): issues the fetch with a new AbortController
Start(st, r) ==
  [st EXCEPT !.requests[r].controller = TRUE, !.fetches[r] = "inflight"]

\* this.__resolve(response): settles a pending promise, no rejection handler runs
Resolve(st, r) ==
  IF st.requests[r].promise = "pending"
  THEN [st EXCEPT !.requests[r].promise = "resolved"]
  ELSE st

\* this.__reject(error): settles a pending promise and schedules the handler
\* that _startDataRequest attached with promise.catch()
Reject(st, r) ==
  IF st.requests[r].promise = "pending"
  THEN [st EXCEPT !.requests[r].promise = "rejected",
                  !.microtasks = Append(@, r)]
  ELSE st

startPoolNoLimit(st0, name) ==
  LET st == getPool(st0, name)
      pool == st.pools[name]
  IN  IF Len(pool.queued) > 0
      THEN LET request == Head(pool.queued)
               st1 == [st EXCEPT !.pools[name].queued = Tail(@),
                                 !.pools[name].active = @ \cup {request}]
           IN  Start(UpdateState(st1, request, "active"), request)
      ELSE st

startPoolLast(st0, name) ==
  LET st == getPool(st0, name)
      pool == st.pools[name]
  IN  IF (Len(pool.queued) > 0) /\ (pool.limit > Cardinality(pool.active))
      THEN LET request == pool.queued[Len(pool.queued)]
               st1 == [st EXCEPT !.pools[name].queued = SubSeq(@, 1, Len(@) - 1),
                                 !.pools[name].active = @ \cup {request}]
           IN  Start(UpdateState(st1, request, "active"), request)
      ELSE st

\* PooledRequest.startPool(name): admits the head of the queue if a slot is free
startPool(st0, name) ==
  LET st == getPool(st0, name)
      pool == st.pools[name]
  IN  IF (Len(pool.queued) > 0) /\ (pool.limit > Cardinality(pool.active))
      THEN LET request == Head(pool.queued)
               st1 == [st EXCEPT !.pools[name].queued = Tail(@),
                                 !.pools[name].active = @ \cup {request}]
           IN  Start(UpdateState(st1, request, "active"), request)
      ELSE st

enqueueNoStart(st0, r) ==
  LET name == st0.requests[r].pool
      st == getPool(st0, name)
      st1 == [st EXCEPT !.pools[name].queued = Append(@, r)]
  IN  UpdateState(st1, r, "queueud")

enqueueAgain(st0, r) ==
  LET name == st0.requests[r].pool
      st == getPool(st0, name)
      st1 == [st EXCEPT !.pools[name].queued = Append(@, r)]
  IN  startPool(UpdateState(st1, r, "queueud"), name)

\* PooledRequest.enqueue(): if (this.state) throw
enqueueThrows(st, r) == st.requests[r].state # ""

\* PooledRequest.enqueue(): the state it leaves, unchanged when it throws
enqueue(st0, r) ==
  IF enqueueThrows(st0, r) THEN st0
  ELSE LET name == st0.requests[r].pool
           st == getPool(st0, name)
           st1 == [st EXCEPT !.pools[name].queued = Append(@, r)]
       IN  startPool(UpdateState(st1, r, "queueud"), name)

dequeueNoStart(st0, r) ==
  LET name == st0.requests[r].pool
      st == getPool(st0, name)
  IN  [st EXCEPT !.pools[name].queued = Remove(@, r),
                 !.pools[name].active = @ \ {r}]

\* PooledRequest.dequeue(): removes all references, regardless of state
dequeue(st0, r) ==
  LET name == st0.requests[r].pool
      st == getPool(st0, name)
      st1 == [st EXCEPT !.pools[name].queued = Remove(@, r),
                        !.pools[name].active = @ \ {r}]
  IN  startPool(st1, name)

\* PooledRequest.cancel()
cancel(st, r) ==
  LET st1 == IF st.requests[r].promise = "pending"
             THEN [st EXCEPT !.canceled = @ \cup {r}] ELSE st
  IN  IF st.requests[r].controller
      THEN \* this.__controller.abort(): "should eventually reject"
           IF st1.fetches[r] = "inflight"
           THEN [st1 EXCEPT !.fetches[r] = "aborted"] ELSE st1
      ELSE Reject(st1, r)

\* PooledDataRequest.releaseDataRequest()
releaseDataRequest(st, c) ==
  IF st.dataRequest[c] # Undefined
  THEN [dequeue(st, st.dataRequest[c]) EXCEPT !.dataRequest[c] = Undefined]
  ELSE st

\* PooledDataRequest._startDataRequest(); the catch handler is the microtask
startDataRequest(st, c) ==
  IF st.dataRequest[c] # Undefined THEN enqueue(st, st.dataRequest[c]) ELSE st

queueDataRequestNoCheck(st, c, pool) ==
  LET r == st.created + 1
      st1 == [NewRequest(st, c, pool) EXCEPT !.dataRequest[c] = r]
  IN  [st |-> startDataRequest(st1, c), error |-> FALSE]

\* PooledDataRequest.queueDataRequest(options): the state after the call
\* and whether the call threw
queueDataRequest(st, c, pool) ==
  IF st.dataRequest[c] # Undefined
  THEN [st |-> st, error |-> TRUE]
  ELSE LET r == st.created + 1
           st1 == [NewRequest(st, c, pool) EXCEPT !.dataRequest[c] = r]
       IN  [st |-> startDataRequest(st1, c), error |-> FALSE]

\* PooledDataRequest.destroy()
destroy(st, c) ==
  IF st.dataRequest[c] # Undefined
  THEN [cancel(st, st.dataRequest[c]) EXCEPT !.dataRequest[c] = Undefined]
  ELSE st

\* No pool has been used yet
PoolIdle ==
  /\ pools = << >>
  /\ requests = << >>
  /\ created = 0
  /\ destroyed = {}
  /\ dataRequest = [c \in Contexts |-> Undefined]
  /\ fetches = << >>
  /\ microtasks = << >>
  /\ canceled = {}

\* A new task starts only when the microtask queue has drained.
TaskStart == microtasks = << >>

\* queueDataRequest(options) on a context without an outstanding request
QueueDataRequest(c, pool) ==
  /\ UNCHANGED <<destroyed, mergeVars, sharedVars, loaderVars>>
  /\ TaskStart
  /\ dataRequest[c] = Undefined /\ c \notin destroyed
  /\ \A d \in Contexts : dataRequest[d] = Undefined /\ d \notin destroyed => c <= d
  /\ created < MaxRequests
  /\ SetPoolState(queueDataRequest(PoolState, c, pool).st)

\* releaseDataRequest() called by the owner, "Releases completed data request"
ReleaseDataRequest(c) ==
  /\ UNCHANGED <<destroyed, mergeVars, sharedVars, loaderVars>>
  /\ TaskStart
  /\ dataRequest[c] # Undefined
  /\ requests[dataRequest[c]].promise = "resolved"
  /\ SetPoolState(releaseDataRequest(PoolState, c))

\* PooledDataRequest.destroy() called by the owner, which then drops the
\* context (StreamedDataLoader.destroy deletes its _pooledDataRequest)
Destroy(c) ==
  /\ TaskStart
  /\ dataRequest[c] # Undefined
  /\ destroyed' = destroyed \cup {c}
  /\ UNCHANGED <<mergeVars, sharedVars, loaderVars>>
  /\ SetPoolState(destroy(PoolState, c))

\* cancel() of the outstanding request, which stays the context's request
\* (PooledDataRequestMixin.disconnectedCallback)
CancelRequest(c) ==
  /\ UNCHANGED <<destroyed, mergeVars, sharedVars, loaderVars>>
  /\ TaskStart
  /\ dataRequest[c] # Undefined
  /\ SetPoolState(cancel(PoolState, dataRequest[c]))

\* fetch() fulfils with a response whose ok flag is set
FetchResponseOk(r) ==
  /\ UNCHANGED <<destroyed, mergeVars, sharedVars, loaderVars>>
  /\ TaskStart
  /\ fetches[r] = "inflight"
  /\ SetPoolState(Resolve([PoolState EXCEPT !.fetches[r] = "done"], r))

\* fetch() fulfils with a response that is not ok
FetchResponseNotOk(r) ==
  /\ UNCHANGED <<destroyed, mergeVars, sharedVars, loaderVars>>
  /\ TaskStart
  /\ fetches[r] = "inflight"
  /\ SetPoolState(Reject([PoolState EXCEPT !.fetches[r] = "done"], r))

\* fetch() rejects: a network error, or the AbortError after abort()
FetchRejects(r) ==
  /\ UNCHANGED <<destroyed, mergeVars, sharedVars, loaderVars>>
  /\ TaskStart
  /\ fetches[r] \in {"inflight", "aborted"}
  /\ SetPoolState(Reject([PoolState EXCEPT !.fetches[r] = "done"], r))

\* The handler of request.promise.catch(): this.releaseDataRequest()
RunMicrotask ==
  /\ UNCHANGED <<destroyed, mergeVars, sharedVars, loaderVars>>
  /\ microtasks # << >>
  /\ LET r == Head(microtasks)
         st == [PoolState EXCEPT !.microtasks = Tail(@)]
     IN  SetPoolState(releaseDataRequest(st, st.requests[r].context))

NextPool ==
  \/ \E c \in Contexts, pool \in PoolNames : QueueDataRequest(c, pool)
  \/ \E c \in Contexts : ReleaseDataRequest(c)
  \/ \E c \in Contexts : Destroy(c)
  \/ \E c \in Contexts : CancelRequest(c)
  \/ \E r \in DOMAIN requests : FetchResponseOk(r)
  \/ \E r \in DOMAIN requests : FetchResponseNotOk(r)
  \/ \E r \in DOMAIN requests : FetchRejects(r)
  \/ RunMicrotask

(***************************************************************************)
(* The deserializing entity data processor.                                *)
(*                                                                         *)
(* A key is kept as the list of its '.'-separated parts, which is what     *)
(* key.split('.') gives.  An entity is an object [ref, val]: ref is the    *)
(* identity of the object and val its content; Null stands for the null    *)
(* of a deleted entity.  A bucket is [defined, map], map taking local keys *)
(* to entities.                                                            *)
(***************************************************************************)
Null == [ref |-> 0, val |-> 0]

UndefinedBucket == [defined |-> FALSE, map |-> << >>]

\* nullSerialization.wrapEntity(entity, context)
wrapEntity(entity) == entity

\* equalEntities: lodash isEqual compares the content, not the identity
equalEntities(entity1, entity2) == entity1.val = entity2.val

\* the id of an entity: the part after the prefix, or the whole key
LocalKey(key, prefix) ==
  IF prefix # ""
  THEN IF Len(key) >= 2 THEN <<key[2]>> ELSE << >>
  ELSE key

\* okay: the key has the form <prefix>.<key>, or is not empty without prefix
KeyOkay(key, prefix) ==
  IF prefix # ""
  THEN key[1] = prefix /\ Len(key) = 2 /\ key[2] # ""
  ELSE key # <<"">>

AccumulateAnyKey(bucket, prefix, row, acc) ==
  LET last == LocalKey(row[1], prefix)
      entity == wrapEntity(row[2])
  IN  IF row[2] = Null
      THEN IF last \in DOMAIN bucket
           THEN [acc EXCEPT !.toDestroy = @ \cup {last}] ELSE acc
      ELSE IF last \notin DOMAIN bucket
      THEN [acc EXCEPT !.toAdd = (last :> entity) @@ @]
      ELSE IF equalEntities(bucket[last], entity)
      THEN [acc EXCEPT !.toDestroy = @ \ {last}]
      ELSE [acc EXCEPT !.toDestroy = @ \cup {last},
                       !.toAdd = (last :> entity) @@ @]

\* One pass of the read loop: what to do with the row [key, entity]
AccumulateRow(bucket, prefix, row, acc) ==
  LET last == LocalKey(row[1], prefix)
      entity == wrapEntity(row[2])
  IN  IF ~KeyOkay(row[1], prefix) THEN acc
      ELSE IF row[2] = Null
      THEN IF last \in DOMAIN bucket
           THEN [acc EXCEPT !.toDestroy = @ \cup {last}] ELSE acc
      ELSE IF last \notin DOMAIN bucket
      THEN [acc EXCEPT !.toAdd = (last :> entity) @@ @]
      ELSE IF equalEntities(bucket[last], entity)
      THEN [acc EXCEPT !.toDestroy = @ \ {last}]
      ELSE [acc EXCEPT !.toDestroy = @ \cup {last},
                       !.toAdd = (last :> entity) @@ @]

\* The read loop: accumulates adds and destroys over the stream
RECURSIVE Accumulate(_, _, _, _)
Accumulate(bucket, prefix, stream, acc) ==
  IF stream = << >> THEN acc
  ELSE Accumulate(bucket, prefix, Tail(stream),
                  AccumulateRow(bucket, prefix, Head(stream), acc))

streamedDataProcessorAlways(current, prefix, stream, hdr) ==
  LET bucket == IF current.defined THEN current.map ELSE << >>
      acc == Accumulate(bucket, prefix, stream,
                        [toDestroy |-> DOMAIN bucket, toAdd |-> << >>])
      kept == [k \in DOMAIN bucket \ acc.toDestroy |-> bucket[k]]
  IN  [changes |-> TRUE,
       toDestroy |-> acc.toDestroy,
       toAdd |-> acc.toAdd,
       destroyed |-> {bucket[k].ref : k \in acc.toDestroy},
       map |-> acc.toAdd @@ kept]

\* _streamedDataProcessor(stream, header) on the bucket `current`: the
\* staged changes, the entities destroyed and the bucket to publish
streamedDataProcessor(current, prefix, stream, hdr) ==
  LET bucket == IF current.defined THEN current.map ELSE << >>
      acc == Accumulate(bucket, prefix, stream,
                        [toDestroy |-> DOMAIN bucket, toAdd |-> << >>])
      changes == ~current.defined \/ acc.toAdd # << >> \/ acc.toDestroy # {}
      kept == [k \in DOMAIN bucket \ acc.toDestroy |-> bucket[k]]
  IN  [changes |-> changes,
       toDestroy |-> acc.toDestroy,
       toAdd |-> acc.toAdd,
       destroyed |-> {bucket[k].ref : k \in acc.toDestroy},
       map |-> acc.toAdd @@ kept]

\* Rows a response can carry, as [key, content]: entities of the keys a, b
\* and c, deletions (content 0), and keys that are not of the form
\* test.<key>: other.a, test, test., test.a.b and the empty key
Rows ==
  {<<k, v>> : k \in {<<"test", "a">>, <<"test", "b">>}, v \in {1, 2, 0}}
    \cup {<<<<"test", "c">>, 3>>, <<<<"test", "c">>, 0>>,
          <<<<"other", "a">>, 1>>, <<<<"test">>, 1>>, <<<<"test", "">>, 1>>,
          <<<<"test", "a", "b">>, 2>>, <<<<"">>, 1>>}

\* The rows as the processor reads them: each decoded entity is a new object
Decode(rows, run) ==
  [i \in DOMAIN rows |->
     <<rows[i][1], IF rows[i][2] = 0 THEN Null
                   ELSE [ref |-> 10 * run + i, val |-> rows[i][2]]>>]

ResponseRows == UNION {[1..n -> Rows] : n \in 0..MaxStreamLen}

\* Contents of the bucket a container can hold before a run
StoredContents ==
  {<< >>, [a |-> 1], [a |-> 1, b |-> 2], [a |-> 2, b |-> 2]}

\* The bucket with these contents: the entity of key k is the object
\* number 1 (a) or 2 (b), stored under the local key of test.k
Stored(contents, prefix) ==
  [lk \in {LocalKey(<<"test", k>>, prefix) : k \in DOMAIN contents} |->
     LET k == CHOOSE k \in DOMAIN contents : LocalKey(<<"test", k>>, prefix) = lk
     IN  [ref |-> IF k = "a" THEN 1 ELSE 2, val |-> contents[k]]]

\* DeserializingSingletonDataProcessor constructor: the singleton processor
\* with the entity held by the property of its container (Null: undefined)
\* and this._key (<< >>: undefined); runs, thrown and destroyed tell the
\* runs made, whether the last run threw, and the entities torn down
NewSingleton(value, key) ==
  [value |-> value, key |-> key, runs |-> 0, thrown |-> FALSE, destroyed |-> {}]

\* The entity a singleton container holds before a run, if it holds one
Held == [ref |-> 9, val |-> 1]

\* DeserializingSingletonDataProcessor._getBucket()
getBucket(s) ==
  [defined |-> TRUE, map |-> IF s.value # Null THEN (s.key :> s.value) ELSE << >>]

\* DeserializingSingletonDataProcessor._setBucket(bucket)
setBucket(s, bucket) ==
  IF Cardinality(DOMAIN bucket) > 1
  THEN [single |-> s, error |-> TRUE]
  ELSE IF DOMAIN bucket = {}
  THEN [single |-> [s EXCEPT !.value = Null, !.key = << >>], error |-> FALSE]
  ELSE LET k == CHOOSE k \in DOMAIN bucket : TRUE
       IN  [single |-> [s EXCEPT !.value = bucket[k], !.key = k], error |-> FALSE]

\* _streamedDataProcessor of the singleton processor: the bucket comes from
\* _getBucket, the staged changes are applied to it, and it is published by
\* _setBucket
singletonDataProcessor(s, prefix, stream, hdr) ==
  LET r == streamedDataProcessor(getBucket(s), prefix, stream, hdr)
      set == setBucket(s, r.map)
  IN  IF ~r.changes
      THEN [s EXCEPT !.runs = @ + 1, !.thrown = FALSE]
      ELSE [set.single EXCEPT !.runs = @ + 1, !.thrown = set.error,
                              !.destroyed = @ \cup r.destroyed]

\* The entity processor has nothing to do
MergeIdle ==
  /\ keyPrefix = "test"
  /\ container = Undefined
  /\ bucketObjects = << >>
  /\ entities = << >>
  /\ header = [update |-> FALSE]
  /\ destroyCalls = << >>
  /\ merges = 0
  /\ bucketBefore = UndefinedBucket
  /\ single = NewSingleton(Null, << >>)

\* A processor constructed on a container, and the response it is given
ProcessorConstructed ==
  /\ keyPrefix \in {"test", ""}
  /\ \/ container = Undefined /\ bucketObjects = << >>
     \/ \E contents \in StoredContents :
          container = 1 /\ bucketObjects = <<Stored(contents, keyPrefix)>>
  /\ \E rows \in ResponseRows : entities = Decode(rows, 1)
  /\ header \in {[update |-> FALSE], [update |-> TRUE]}
  /\ destroyCalls = << >>
  /\ merges = 0
  /\ bucketBefore = UndefinedBucket
  /\ single \in {NewSingleton(Null, << >>),
                 NewSingleton(Held, LocalKey(<<"test", "a">>, keyPrefix))}

\* this._container[this._property], as a bucket
CurrentBucket ==
  IF container = Undefined THEN UndefinedBucket
  ELSE [defined |-> TRUE, map |-> bucketObjects[container]]

\* destroyEntity(entity) on each of the objects in `refs`
DestroyEntities(calls, refs) ==
  [e \in DOMAIN calls \cup refs |->
     (IF e \in DOMAIN calls THEN calls[e] ELSE 0) + (IF e \in refs THEN 1 ELSE 0)]

\* One run of the processor on the container.  With changes, the bucket
\* object is changed in place and a copy of it is assigned to the property;
\* the same response is then decoded again for the next run.
StreamedDataProcessor ==
  /\ UNCHANGED <<poolVars, sharedVars, loaderVars>>
  /\ merges < MaxMerges
  /\ LET r == streamedDataProcessor(CurrentBucket, keyPrefix, entities, header)
     IN  /\ bucketBefore' = CurrentBucket
         /\ merges' = merges + 1
         /\ IF r.changes
            THEN /\ destroyCalls' = DestroyEntities(destroyCalls, r.destroyed)
                 /\ container' = Len(bucketObjects) + 1
                 /\ bucketObjects' =
                      Append(IF container = Undefined THEN bucketObjects
                             ELSE [bucketObjects EXCEPT ![container] = r.map], r.map)
            ELSE UNCHANGED <<destroyCalls, container, bucketObjects>>
         /\ entities' = Decode([i \in DOMAIN entities |->
                                  <<entities[i][1], entities[i][2].val>>], merges + 2)
         /\ UNCHANGED <<keyPrefix, header, single>>

\* One run of the singleton processor on its container, with the response
\* decoded for it
SingletonDataProcessor ==
  /\ UNCHANGED <<poolVars, sharedVars, loaderVars>>
  /\ single.runs < MaxMerges
  /\ LET stream == Decode([i \in DOMAIN entities |->
                            <<entities[i][1], entities[i][2].val>>],
                         10 * (single.runs + 1))
     IN  single' = singletonDataProcessor(single, keyPrefix, stream, header)
  /\ UNCHANGED <<keyPrefix, container, bucketObjects, entities, header,
                 destroyCalls, merges, bucketBefore>>

(***************************************************************************)
(* The shared data loaders.                                                *)
(*                                                                         *)
(* A configuration object is the list of its [name, value] properties in   *)
(* the order they were written.  A Set or a Map is the list of its members *)
(* in insertion order, which is the order its iteration follows.  A        *)
(* specification object is known by the number of its loader.              *)
(***************************************************************************)
Subclasses == {"StreamedDataLoader", "UpdatingStreamedDataLoader"}

HasDestroyNever(Subclass) == FALSE

\* if (spec.loader.destroy): both loader classes define destroy()
HasDestroy(Subclass) == Subclass \in Subclasses

CfgA == << <<"url", "/a">>, <<"query", "q">> >>
CfgA2 == << <<"query", "q">>, <<"url", "/a">> >>
NoTarget == ""

\* The clients of the registry: each has its processor and its own
\* configuration object; the first reports activity to the document
Clients ==
  {[processor |-> "p1", config |-> CfgA, target |-> "document"],
   [processor |-> "p2", config |-> CfgA2, target |-> NoTarget]}

objectHashOrdered(config) == config

\* objectHash(config): the digest of the properties whatever their order
objectHash(config) == Range(config)

Registry ==
  [dataLoaders |-> dataLoaders, specs |-> specs, loaders |-> loaders,
   loadCount |-> loadCount]

\* Set.add(x) and Set.delete(x)
SetAdd(seq, x) == IF x \in Range(seq) THEN seq ELSE Append(seq, x)
SetDelete(seq, x) == Remove(seq, x)

\* Map.set(key, value) and Map.delete(key) on a list of [key, value] entries
MapSet(seq, key, value) ==
  IF \E i \in DOMAIN seq : seq[i][1] = key
  THEN [i \in DOMAIN seq |-> IF seq[i][1] = key THEN <<key, value>> ELSE seq[i]]
  ELSE Append(seq, <<key, value>>)
MapDelete(seq, key) == SelectSeq(seq, LAMBDA e : e[1] # key)

\* The specification object made for a new loader.  Besides the fields of
\* the code it holds what belongs to its _sharedProcessor and its timeouts:
\* the load cycle (running, stream, read, forwarders), the number of pending
\* catch-up timeouts, the forwarders of the catch-up made since the last
\* load (replay), and the bucket that an entity processor registered before
\* the first load has built from the live streams (bucket).
NewSpec(Subclass, config) ==
  [Subclass |-> Subclass, config |-> config, processors |-> << >>,
   targets |-> << >>, objects |-> << >>, state |-> "", catchups |-> << >>,
   header |-> [update |-> FALSE],
   timeouts |-> 0, running |-> FALSE, stream |-> << >>, read |-> << >>,
   forwarders |-> << >>,
   replay |-> << >>, bucket |-> UndefinedBucket]

\* new Subclass({...config, processor, activityTarget})
NewLoader(Subclass) == [Subclass |-> Subclass, destroys |-> 0]

\* _delayedCatchup(spec): one more timeout is pending
delayedCatchup(spec) == [spec EXCEPT !.timeouts = @ + 1]

\* referenceDataLoader(Subclass, config, processor, target): the registry
\* after the call and the loader returned
referenceDataLoader(rg, Subclass, config, processor, target) ==
  LET key == <<Subclass, objectHash(config)>>
      new == key \notin DOMAIN rg.dataLoaders
      loader == IF new THEN Len(rg.loaders) + 1 ELSE rg.dataLoaders[key]
      rg1 == IF new
             THEN [rg EXCEPT !.loaders = Append(@, NewLoader(Subclass)),
                             !.dataLoaders = (key :> loader) @@ @,
                             !.specs = (loader :> NewSpec(Subclass, config)) @@ @]
             ELSE rg
      spec == rg1.specs[loader]
      count == IF target \in DOMAIN spec.targets THEN spec.targets[target] ELSE 0
      spec1 == [spec EXCEPT !.processors = SetAdd(@, processor),
                            !.targets = IF target # NoTarget
                                        THEN (target :> count + 1) @@ @ ELSE @]
      spec2 == IF spec1.state # ""
               THEN [spec1 EXCEPT !.catchups = SetAdd(@, processor)] ELSE spec1
      spec3 == IF spec2.state = "loaded" THEN delayedCatchup(spec2) ELSE spec2
  IN  [registry |-> [rg1 EXCEPT !.specs[loader] = spec3], value |-> loader]

dereferenceAnyProcessor(rg, loader, processor, target) ==
  LET found == {k \in DOMAIN rg.dataLoaders : rg.dataLoaders[k] = loader}
  IN  IF found # {}
      THEN LET spec == rg.specs[loader]
               count == IF target \in DOMAIN spec.targets THEN spec.targets[target] ELSE 0
               spec1 == [spec EXCEPT
                           !.processors = SetDelete(@, processor),
                           !.targets = IF target # NoTarget /\ count > 0
                                       THEN IF count = 1
                                            THEN [t \in DOMAIN @ \ {target} |-> @[t]]
                                            ELSE [@ EXCEPT ![target] = count - 1]
                                       ELSE @]
               last == spec1.processors = << >>
           IN  [registry |->
                  [rg EXCEPT !.specs[loader] = spec1,
                             !.loaders[loader].destroys =
                               IF last /\ HasDestroy(spec.Subclass) THEN @ + 1 ELSE @,
                             !.dataLoaders =
                               IF last THEN [k \in DOMAIN @ \ found |-> @[k]] ELSE @],
                value |-> TRUE]
      ELSE [registry |-> rg, value |-> FALSE]

dereferenceKeepsEmpty(rg, loader, processor, target) ==
  LET found == {k \in DOMAIN rg.dataLoaders : rg.dataLoaders[k] = loader}
  IN  IF found # {} /\ processor \in Range(rg.specs[loader].processors)
      THEN [registry |-> [rg EXCEPT !.specs[loader].processors = SetDelete(@, processor)],
            value |-> TRUE]
      ELSE [registry |-> rg, value |-> FALSE]

\* dereferenceDataLoader(loader, processor, target): the registry after the
\* call and the value returned
dereferenceDataLoader(rg, loader, processor, target) ==
  LET found == {k \in DOMAIN rg.dataLoaders : rg.dataLoaders[k] = loader}
  IN  IF found # {} /\ processor \in Range(rg.specs[loader].processors)
      THEN LET spec == rg.specs[loader]
               count == IF target \in DOMAIN spec.targets THEN spec.targets[target] ELSE 0
               spec1 == [spec EXCEPT
                           !.processors = SetDelete(@, processor),
                           !.targets = IF target # NoTarget /\ count > 0
                                       THEN IF count = 1
                                            THEN [t \in DOMAIN @ \ {target} |-> @[t]]
                                            ELSE [@ EXCEPT ![target] = count - 1]
                                       ELSE @]
               last == spec1.processors = << >>
           IN  [registry |->
                  [rg EXCEPT !.specs[loader] = spec1,
                             !.loaders[loader].destroys =
                               IF last /\ HasDestroy(spec.Subclass) THEN @ + 1 ELSE @,
                             !.dataLoaders =
                               IF last THEN [k \in DOMAIN @ \ found |-> @[k]] ELSE @],
                value |-> TRUE]
      ELSE [registry |-> rg, value |-> FALSE]

\* new StreamForwarder() for a processor: what its stream has been given
NewForwarder(processor) == [processor |-> processor, got |-> << >>, closed |-> FALSE]

\* StreamForwarder.forward(rslt)
forward(fwd, rslt) ==
  IF rslt.done THEN [fwd EXCEPT !.closed = TRUE]
  ELSE [fwd EXCEPT !.got = Append(@, rslt.value)]

forwardFirst(forwarders, rslt) ==
  [i \in DOMAIN forwarders |->
     IF i = 1 THEN forward(forwarders[i], rslt) ELSE forwarders[i]]

\* for (let fwd of forwarders) fwd.forward(rslt)
forwardAll(forwarders, rslt) ==
  [i \in DOMAIN forwarders |-> forward(forwarders[i], rslt)]

\* The bucket an entity processor with prefix "test" leaves in its container
BucketAfter(current, stream, hdr) ==
  LET r == streamedDataProcessor(current, "test", stream, hdr)
  IN  IF r.changes THEN [defined |-> TRUE, map |-> r.map] ELSE current

\* _sharedProcessor(spec, stream, header), up to its first read
sharedProcessorStart(spec, stream, hdr) ==
  [spec EXCEPT !.state = "loading",
               !.stream = stream,
               !.header = hdr,
               !.objects = IF hdr.update THEN @ ELSE << >>,
               !.forwarders = [i \in DOMAIN spec.processors |->
                                 NewForwarder(spec.processors[i])],
               !.running = TRUE, !.read = << >>, !.replay = << >>]

\* _sharedProcessor: one pass of its loop, on the result rslt of the read
sharedProcessorRead(spec, rslt) ==
  LET spec1 == [spec EXCEPT !.forwarders = forwardAll(@, rslt)]
  IN  IF rslt.done
      THEN LET spec2 == [spec1 EXCEPT
                           !.state = "loaded", !.running = FALSE,
                           !.bucket = BucketAfter(@, spec.read, spec.header)]
           IN  IF Len(spec2.catchups) > 0 THEN delayedCatchup(spec2) ELSE spec2
      ELSE [spec1 EXCEPT
              !.read = Append(@, rslt.value),
              !.objects = IF rslt.value[2] # Null
                          THEN MapSet(@, rslt.value[1], rslt.value[2])
                          ELSE MapDelete(@, rslt.value[1])]

\* for (let value of spec.objects) ... fwd.forward({done: false, value})
RECURSIVE forwardValues(_, _)
forwardValues(forwarders, values) ==
  IF values = << >> THEN forwarders
  ELSE forwardValues(forwardAll(forwarders, [done |-> FALSE, value |-> Head(values)]),
                     Tail(values))

\* _catchupProcessor(spec)
catchupProcessor(spec) ==
  LET forwarders == [i \in DOMAIN spec.catchups |-> NewForwarder(spec.catchups[i])]
  IN  [spec EXCEPT
         !.catchups = << >>,
         !.replay = forwardAll(forwardValues(forwarders, spec.objects),
                               [done |-> TRUE, value |-> << >>])]

catchupTimeoutAlways(spec) ==
  catchupProcessor([spec EXCEPT !.timeouts = @ - 1])

\* The callback that _delayedCatchup gave to setTimeout
catchupTimeout(spec) ==
  LET spec1 == [spec EXCEPT !.timeouts = @ - 1]
  IN  IF spec1.state = "loaded" THEN catchupProcessor(spec1) ELSE spec1

\* The rows of the responses a loader can get
LoaderStreams ==
  {<< <<<<"test", "a">>, 1>> >>,
   << <<<<"test", "b">>, 2>> >>,
   << <<<<"test", "a">>, 1>>, <<<<"test", "a">>, 0>> >>}

\* Garbage collection: a specification that left the registry stays only
\* while a load cycle or a timeout still refers to it
CollectSpecs(rg) ==
  LET live == {l \in DOMAIN rg.specs :
                 \/ l \in Range(rg.dataLoaders)
                 \/ rg.specs[l].timeouts > 0
                 \/ rg.specs[l].running}
  IN  [rg EXCEPT !.specs = [l \in live |-> @[l]]]

SetRegistry(rg0) ==
  LET rg == CollectSpecs(rg0)
  IN  /\ dataLoaders' = rg.dataLoaders
      /\ specs' = rg.specs
      /\ loaders' = rg.loaders
      /\ loadCount' = rg.loadCount

\* No loader has been referenced yet
SharedIdle ==
  /\ dataLoaders = << >>
  /\ specs = << >>
  /\ loaders = << >>
  /\ loadCount = 0
  /\ referenceCount = 0

\* A client calls referenceDataLoader
ReferenceDataLoader(Subclass, config, processor, target) ==
  /\ referenceCount < MaxReferences
  /\ referenceCount' = referenceCount + 1
  /\ UNCHANGED <<poolVars, mergeVars, loaderVars>>
  /\ SetRegistry(referenceDataLoader(Registry, Subclass, config, processor, target).registry)

\* A client calls dereferenceDataLoader with a loader it was given
DereferenceDataLoader(loader, processor, target) ==
  /\ UNCHANGED <<referenceCount, poolVars, mergeVars, loaderVars>>
  /\ SetRegistry(dereferenceDataLoader(Registry, loader, processor, target).registry)

\* The loader of a specification has a response and invokes its processor
StartLoad(l, rows, update) ==
  /\ UNCHANGED <<referenceCount, poolVars, mergeVars, loaderVars>>
  /\ l \in Range(dataLoaders)
  /\ ~specs[l].running
  /\ loadCount < MaxLoads
  /\ SetRegistry([Registry EXCEPT
                    !.loadCount = @ + 1,
                    !.specs[l] = sharedProcessorStart(@, Decode(rows, loadCount + 1),
                                                      [update |-> update])])

\* reader.read() gives the next row of the loader's stream
ReadRow(l) ==
  /\ UNCHANGED <<referenceCount, poolVars, mergeVars, loaderVars>>
  /\ specs[l].running
  /\ Len(specs[l].read) < Len(specs[l].stream)
  /\ LET value == specs[l].stream[Len(specs[l].read) + 1]
     IN  SetRegistry([Registry EXCEPT
                        !.specs[l] = sharedProcessorRead(@, [done |-> FALSE, value |-> value])])

\* reader.read() reports the end of the loader's stream
ReadDone(l) ==
  /\ UNCHANGED <<referenceCount, poolVars, mergeVars, loaderVars>>
  /\ specs[l].running
  /\ Len(specs[l].read) = Len(specs[l].stream)
  /\ SetRegistry([Registry EXCEPT
                    !.specs[l] = sharedProcessorRead(@, [done |-> TRUE, value |-> << >>])])

\* reader.read() rejects: _sharedProcessor throws and leaves its forwarders open
ReadError(l) ==
  /\ UNCHANGED <<referenceCount, poolVars, mergeVars, loaderVars>>
  /\ specs[l].running
  /\ SetRegistry([Registry EXCEPT !.specs[l].running = FALSE])

\* A catch-up timeout fires
CatchupTimeout(l) ==
  /\ UNCHANGED <<referenceCount, poolVars, mergeVars, loaderVars>>
  /\ specs[l].timeouts > 0
  /\ SetRegistry([Registry EXCEPT !.specs[l] = catchupTimeout(@)])

NextShared ==
  \/ \E Subclass \in Subclasses, client \in Clients :
       ReferenceDataLoader(Subclass, client.config, client.processor, client.target)
  \/ \E loader \in DOMAIN loaders, client \in Clients :
       \E target \in {client.target, NoTarget} :
         DereferenceDataLoader(loader, client.processor, target)
  \/ \E l \in DOMAIN specs, rows \in LoaderStreams, update \in BOOLEAN :
       StartLoad(l, rows, update)
  \/ \E l \in DOMAIN specs : ReadRow(l)
  \/ \E l \in DOMAIN specs : ReadDone(l)
  \/ \E l \in DOMAIN specs : ReadError(l)
  \/ \E l \in DOMAIN specs : CatchupTimeout(l)

(***************************************************************************)
(* The updating streamed data loaders and their status event source.       *)
(*                                                                         *)
(* Loader number l owns the PooledDataRequest of context l.  A handler     *)
(* takes and returns the record `ls` of the pool state, the loaders and    *)
(* the event sources.  A timeout set by setTimeout is an entry of the      *)
(* loader's `timers`, id -> delay, until it fires or is cleared.  `phase`  *)
(* is the position of the loader in the promise chain of _dataRequest and  *)
(* `thrown` the error that ended a callback or a chain with no handler.    *)
(***************************************************************************)
LoaderIds == {1, 2}

statusURL == "/test/status"

\* the statusEvent option of each loader
StatusEvents == <<"/a", "/b">>

\* superseded objects of the status events the server sends
Superseded == {("X" :> 1), ("X" :> 2)}

\* this._statusEventData when it is undefined (no event data is kept)
NoEventData == << >>

\* the superseded object of a reopen event: {superseded: {reopen: 1}}
Reopen == ("reopen" :> 1)

\* headers of the responses: without count (retry), or with count and the
\* timestamps {X: t}
Headers == {[count |-> FALSE, timestamps |-> << >>],
            [count |-> TRUE, timestamps |-> ("X" :> 1)],
            [count |-> TRUE, timestamps |-> ("X" :> 2)]}

NotConstructed ==
  [constructed |-> FALSE, statusEvent |-> "", state |-> 0, requestState |-> "",
   requestDelay |-> 0, requestId |-> Undefined, timers |-> << >>,
   timestamps |-> << >>, statusEventData |-> NoEventData, pooled |-> FALSE,
   phase |-> "", thrown |-> ""]

LoaderState ==
  [pool |-> PoolState, loaders |-> streamLoaders, sources |-> sharedEventSources]

\* x | bit and x & ~bit on the two state bits
SetBit(x, bit) == IF (x \div bit) % 2 = 1 THEN x ELSE x + bit
ClearBit(x, bit) == IF (x \div bit) % 2 = 1 THEN x - bit ELSE x

\* setTimeout: the id of the new timeout
NewTimer(ld) == CHOOSE id \in 1..(Cardinality(DOMAIN ld.timers) + 1) : id \notin DOMAIN ld.timers

\* clearTimeout(id)
ClearTimeout(timers, id) == [t \in DOMAIN timers \ {id} |-> timers[t]]

delayedDataRequestAlways(ld, delay) ==
  LET ld1 == IF ld.requestState = "pending"
             THEN [ld EXCEPT !.timers = ClearTimeout(@, ld.requestId),
                             !.requestState = "idle",
                             !.requestId = Undefined]
             ELSE ld
  IN  IF ld1.requestState = "idle"
      THEN [ld1 EXCEPT !.requestState = "pending", !.requestDelay = delay,
                       !.requestId = NewTimer(ld1),
                       !.timers = (NewTimer(ld1) :> delay) @@ @]
      ELSE ld1

\* StreamedDataLoader._delayedDataRequest(delay)
delayedDataRequest(ld, delay) ==
  LET ld1 == IF ld.requestState = "pending" /\ delay < ld.requestDelay
             THEN [ld EXCEPT !.timers = ClearTimeout(@, ld.requestId),
                             !.requestState = "idle",
                             !.requestId = Undefined]
             ELSE ld
  IN  IF ld1.requestState = "idle"
      THEN [ld1 EXCEPT !.requestState = "pending", !.requestDelay = delay,
                       !.requestId = NewTimer(ld1),
                       !.timers = (NewTimer(ld1) :> delay) @@ @]
      ELSE ld1

queueDataRequestIfOlder(ld) ==
  IF ld.requestState = "idle" /\ ld.statusEventData # NoEventData
  THEN LET superseded == ld.statusEventData
           changed == \E name \in DOMAIN superseded :
                        superseded[name] < (IF name \in DOMAIN ld.timestamps
                                            THEN ld.timestamps[name] ELSE 0)
           ld1 == [ld EXCEPT !.statusEventData = NoEventData]
       IN  IF changed THEN delayedDataRequest(ld1, 0) ELSE ld1
  ELSE ld

\* UpdatingDataLoaderMixin._queueDataRequestIfChanges()
queueDataRequestIfChanges(ld) ==
  IF ld.requestState = "idle" /\ ld.statusEventData # NoEventData
  THEN LET superseded == ld.statusEventData
           changed == \E name \in DOMAIN superseded :
                        superseded[name] > (IF name \in DOMAIN ld.timestamps
                                            THEN ld.timestamps[name] ELSE 0)
           ld1 == [ld EXCEPT !.statusEventData = NoEventData]
       IN  IF changed THEN delayedDataRequest(ld1, 0) ELSE ld1
  ELSE ld

\* UpdatingDataLoaderMixin._statusEventListener(e), data being the
\* superseded object of JSON.parse(e.data)
statusEventListener(ld, data) ==
  queueDataRequestIfChanges([ld EXCEPT !.statusEventData = data])

\* The callback of the timeout `id`: delete this._requestId,
\* this._requestDelay = 0, this._dataRequest().  _dataRequest sets the
\* request state and calls queueDataRequest, which throws when the
\* PooledDataRequest is gone or has a request.
timeoutCallback(ls, l, id) ==
  LET ld == [ls.loaders[l] EXCEPT !.timers = ClearTimeout(@, id),
                                  !.requestId = Undefined,
                                  !.requestDelay = 0,
                                  !.requestState = "active"]
  IN  IF ~ld.pooled
      THEN [ls EXCEPT !.loaders[l] = [ld EXCEPT !.thrown = "TypeError"]]
      ELSE LET queued == queueDataRequest(ls.pool, l, "default")
           IN  IF queued.error
               THEN [ls EXCEPT !.loaders[l] = [ld EXCEPT !.thrown = "already active"]]
               ELSE [ls EXCEPT !.pool = queued.st,
                               !.loaders[l] = [ld EXCEPT !.phase = "request"]]

responseOkIdle(ls, l) ==
  LET r == ls.pool.dataRequest[l]
      st == Resolve([ls.pool EXCEPT !.fetches[r] = "done"], r)
      ld == [ls.loaders[l] EXCEPT !.phase = "header", !.requestState = "idle"]
  IN  [ls EXCEPT !.pool = st, !.loaders[l] = queueDataRequestIfChanges(ld)]

\* The response of the request has arrived and is ok: the promise of the
\* request resolves, the stream callback starts reading the header and
\* returns nothing, so the promise of super._dataRequest() resolves and the
\* mixin's handler runs _queueDataRequestIfChanges before the header is read
responseOk(ls, l) ==
  LET r == ls.pool.dataRequest[l]
      st == Resolve([ls.pool EXCEPT !.fetches[r] = "done"], r)
      ld == [ls.loaders[l] EXCEPT !.phase = "header"]
  IN  [ls EXCEPT !.pool = st, !.loaders[l] = queueDataRequestIfChanges(ld)]

\* The handler of the .catch() of _dataRequest, then the mixin's handler
dataRequestFailed(ls, l) ==
  LET ld == ls.loaders[l]
  IN  IF ld.pooled
      THEN LET ld1 == [ld EXCEPT !.requestState = "idle", !.phase = "",
                                 !.state = SetBit(@, errorStateBit)]
           IN  [ls EXCEPT !.pool = releaseDataRequest(@, l),
                          !.loaders[l] = queueDataRequestIfChanges(
                                           delayedDataRequest(ld1, errorDelay))]
      ELSE [ls EXCEPT !.loaders[l] = queueDataRequestIfChanges(
                                       [ld EXCEPT !.phase = ""])]

\* The request of loader l was rejected (response not ok, network error,
\* abort): the handler of request.promise.catch() in _startDataRequest
\* runs first, then the handlers of the loader
requestRejected(ls, l, r) ==
  LET st == Reject([ls.pool EXCEPT !.fetches[r] = "done"], r)
      st1 == releaseDataRequest([st EXCEPT !.microtasks = Remove(@, r)], l)
  IN  dataRequestFailed([ls EXCEPT !.pool = st1], l)

\* An error inside the chain that starts at _getHeaderObject: the chain is
\* not returned to the outer chain, so no handler sees the rejection
unhandledRejection(ls, l, error) ==
  [ls EXCEPT !.loaders[l].phase = "", !.loaders[l].thrown = error]

cycleDoneKeepsRequest(ls, l, receivedData) ==
  LET ld == ls.loaders[l]
  IN  IF ~ld.pooled THEN unhandledRejection(ls, l, "TypeError")
      ELSE LET ld1 == [ld EXCEPT !.requestState = "idle", !.phase = ""]
           IN  [ls EXCEPT
                  !.loaders[l] =
                     IF receivedData
                     THEN [ld1 EXCEPT !.state = ClearBit(@, unloadedStateBit)]
                     ELSE delayedDataRequest(
                            [ld1 EXCEPT !.state = SetBit(@, unloadedStateBit)], 0)]

cycleDoneNoRetry(ls, l, receivedData) ==
  LET ld == ls.loaders[l]
  IN  IF ~ld.pooled THEN unhandledRejection(ls, l, "TypeError")
      ELSE LET ld1 == [ld EXCEPT !.requestState = "idle", !.phase = ""]
           IN  [ls EXCEPT
                  !.pool = releaseDataRequest(@, l),
                  !.loaders[l] =
                     IF receivedData
                     THEN [ld1 EXCEPT !.state = ClearBit(@, unloadedStateBit)]
                     ELSE [ld1 EXCEPT !.state = SetBit(@, unloadedStateBit)]]

\* The handler that follows the header and the processor: releases the
\* request and returns to idle
cycleDone(ls, l, receivedData) ==
  LET ld == ls.loaders[l]
  IN  IF ~ld.pooled THEN unhandledRejection(ls, l, "TypeError")
      ELSE LET ld1 == [ld EXCEPT !.requestState = "idle", !.phase = ""]
           IN  [ls EXCEPT
                  !.pool = releaseDataRequest(@, l),
                  !.loaders[l] =
                     IF receivedData
                     THEN [ld1 EXCEPT !.state = ClearBit(@, unloadedStateBit)]
                     ELSE delayedDataRequest(
                            [ld1 EXCEPT !.state = SetBit(@, unloadedStateBit)], 0)]

headerReadKeepsError(ls, l, hdr) ==
  LET ld == ls.loaders[l]
  IN  IF hdr.count
      THEN [ls EXCEPT !.loaders[l] =
              [ld EXCEPT !.timestamps = hdr.timestamps @@ @,
                         !.phase = "processor"]]
      ELSE cycleDone([ls EXCEPT !.loaders[l] = ld], l, FALSE)

\* The header object has been read: with a count the processor is called
\* and the chain waits for its promise, without it the cycle is done
headerRead(ls, l, hdr) ==
  LET ld == [ls.loaders[l] EXCEPT !.state = ClearBit(@, errorStateBit)]
  IN  IF hdr.count
      THEN [ls EXCEPT !.loaders[l] =
              [ld EXCEPT !.timestamps = hdr.timestamps @@ @,
                         !.phase = "processor"]]
      ELSE cycleDone([ls EXCEPT !.loaders[l] = ld], l, FALSE)

\* The read of the header resolves without a value (the body is empty):
\* the handler clears the error bit and header.hasOwnProperty throws
headerUndefined(ls, l) ==
  unhandledRejection([ls EXCEPT !.loaders[l].state = ClearBit(@, errorStateBit)],
                     l, "TypeError")

\* new SharedEventSource(url): the hub of the url, made on first use
NewEventSource == [open |-> FALSE, eventListeners |-> << >>, listeners |-> << >>]

sharedEventSourceNew(sources, url) == (url :> NewEventSource) @@ sources

sharedEventSource(sources, url) ==
  IF url \in DOMAIN sources THEN sources ELSE (url :> NewEventSource) @@ sources

\* this._eventListeners[event], a Set, or the empty list when undefined
ListenersOf(hub, event) ==
  IF \E i \in DOMAIN hub.eventListeners : hub.eventListeners[i][1] = event
  THEN hub.eventListeners[CHOOSE i \in DOMAIN hub.eventListeners :
                            hub.eventListeners[i][1] = event][2]
  ELSE << >>

addListenerTwice(hub, event, listener) ==
  [hub |-> [hub EXCEPT !.eventListeners =
                          MapSet(@, event, Append(ListenersOf(hub, event), listener)),
                       !.listeners = Append(@, <<event, listener>>)],
   error |-> FALSE]

\* SharedEventSource.addListener(event, listener): the hub after the call
\* and whether the call threw
addListener(hub, event, listener) ==
  IF listener \in Range(ListenersOf(hub, event))
  THEN [hub |-> hub, error |-> TRUE]
  ELSE [hub |-> [hub EXCEPT !.eventListeners =
                               MapSet(@, event, SetAdd(ListenersOf(hub, event), listener)),
                            !.listeners = SetAdd(@, <<event, listener>>)],
        error |-> FALSE]

\* SharedEventSource.removeListener(event, listener)
removeListener(hub, event, listener) ==
  IF listener \notin Range(ListenersOf(hub, event))
  THEN [hub |-> hub, error |-> TRUE]
  ELSE LET rest == SetDelete(ListenersOf(hub, event), listener)
       IN  [hub |-> [hub EXCEPT !.eventListeners =
                                    IF rest = << >> THEN MapDelete(@, event)
                                    ELSE MapSet(@, event, rest),
                                 !.listeners = SetDelete(@, <<event, listener>>)],
            error |-> FALSE]

\* EventSource.dispatchEvent of an event named `event` with the superseded
\* object `data`: the listeners added for that name are called in order
RECURSIVE dispatchEvent(_, _, _, _)
dispatchEvent(lds, listeners, event, data) ==
  IF listeners = << >> THEN lds
  ELSE LET l == Head(listeners)[2]
           lds1 == IF Head(listeners)[1] = event
                   THEN [lds EXCEPT ![l] = statusEventListener(@, data)] ELSE lds
       IN  dispatchEvent(lds1, Tail(listeners), event, data)

\* SharedEventSource._openListener: the loop over the event names
RECURSIVE dispatchReopen(_, _, _)
dispatchReopen(lds, hub, names) ==
  IF names = << >> THEN lds
  ELSE dispatchReopen(dispatchEvent(lds, hub.listeners, Head(names)[1], Reopen),
                      hub, Tail(names))

openListenerAlways(ls, url) ==
  LET hub == ls.sources[url]
  IN  [ls EXCEPT !.loaders = dispatchReopen(@, hub, hub.eventListeners),
                 !.sources[url].open = TRUE]

\* SharedEventSource._openListener(e)
openListener(ls, url) ==
  LET hub == ls.sources[url]
  IN  [ls EXCEPT !.loaders = IF hub.open
                             THEN dispatchReopen(@, hub, hub.eventListeners) ELSE @,
                 !.sources[url].open = TRUE]

\* new UpdatingStreamedDataLoader(options): the constructor of
\* StreamedDataLoader, then the one of the mixin
newLoader(ls, l) ==
  LET ld == delayedDataRequest(
              [NotConstructed EXCEPT !.constructed = TRUE,
                                     !.statusEvent = StatusEvents[l],
                                     !.state = unloadedStateBit,
                                     !.requestState = "idle",
                                     !.pooled = TRUE], 0)
      sources == sharedEventSource(ls.sources, statusURL)
      added == addListener(sources[statusURL], ld.statusEvent, l)
  IN  [ls EXCEPT !.loaders[l] = ld, !.sources = (statusURL :> added.hub) @@ sources]

\* UpdatingDataLoaderMixin.destroy(), then StreamedDataLoader.destroy();
\* a request that was still queued is rejected by cancel() and its
\* handlers run when destroy() has returned
destroyLoader(ls, l) ==
  LET ld == [ls.loaders[l] EXCEPT !.statusEventData = NoEventData]
      removed == removeListener(ls.sources[statusURL], ld.statusEvent, l)
      r == ls.pool.dataRequest[l]
      st == destroy(ls.pool, l)
      ls1 == [ls EXCEPT !.loaders[l] = [ld EXCEPT !.pooled = FALSE],
                        !.sources[statusURL] = removed.hub,
                        !.pool = st]
  IN  IF removed.error
      THEN [ls EXCEPT !.loaders[l] = [ld EXCEPT !.thrown = "not assigned"]]
      ELSE IF r # Undefined /\ r \in Range(st.microtasks)
      THEN dataRequestFailed(
             [ls1 EXCEPT !.pool = releaseDataRequest(
                                    [st EXCEPT !.microtasks = Remove(@, r)], l)], l)
      ELSE ls1

SetLoaderState(ls) ==
  /\ SetPoolState(ls.pool)
  /\ streamLoaders' = ls.loaders
  /\ sharedEventSources' = ls.sources

\* No loader has been constructed yet
LoaderIdle ==
  /\ streamLoaders = [l \in LoaderIds |-> NotConstructed]
  /\ sharedEventSources = << >>

\* new UpdatingStreamedDataLoader(options)
ConstructLoader(l) ==
  /\ UNCHANGED <<destroyed, mergeVars, sharedVars>>
  /\ ~streamLoaders[l].constructed
  /\ \A k \in LoaderIds : ~streamLoaders[k].constructed => l <= k
  /\ SetLoaderState(newLoader(LoaderState, l))

\* A timeout of loader l fires
TimerFires(l, id) ==
  /\ UNCHANGED <<destroyed, mergeVars, sharedVars>>
  /\ id \in DOMAIN streamLoaders[l].timers
  /\ created < MaxCycles
  /\ SetLoaderState(timeoutCallback(LoaderState, l, id))

\* The fetch of loader l fulfils with a response whose ok flag is set
LoaderResponseOk(l) ==
  /\ UNCHANGED <<destroyed, mergeVars, sharedVars>>
  /\ streamLoaders[l].phase = "request"
  /\ dataRequest[l] # Undefined
  /\ fetches[dataRequest[l]] = "inflight"
  /\ SetLoaderState(responseOk(LoaderState, l))

\* The fetch of loader l fulfils with a response that is not ok, or rejects
\* (network error, or AbortError after abort())
LoaderRequestFails(l, r) ==
  /\ UNCHANGED <<destroyed, mergeVars, sharedVars>>
  /\ requests[r].context = l
  /\ fetches[r] \in {"inflight", "aborted"}
  /\ SetLoaderState(requestRejected(LoaderState, l, r))

\* The read of the header line resolves with a header object
HeaderRead(l, hdr) ==
  /\ UNCHANGED <<destroyed, mergeVars, sharedVars>>
  /\ streamLoaders[l].phase = "header"
  /\ SetLoaderState(headerRead(LoaderState, l, hdr))

\* The read of the header line resolves without a value (empty body)
HeaderEmpty(l) ==
  /\ UNCHANGED <<destroyed, mergeVars, sharedVars>>
  /\ streamLoaders[l].phase = "header"
  /\ SetLoaderState(headerUndefined(LoaderState, l))

\* The read of the header line rejects
HeaderFails(l) ==
  /\ UNCHANGED <<destroyed, mergeVars, sharedVars>>
  /\ streamLoaders[l].phase = "header"
  /\ SetLoaderState(unhandledRejection(LoaderState, l, "unhandled rejection"))

\* The promise returned by the processor resolves
ProcessorResolves(l) ==
  /\ UNCHANGED <<destroyed, mergeVars, sharedVars>>
  /\ streamLoaders[l].phase = "processor"
  /\ SetLoaderState(cycleDone(LoaderState, l, TRUE))

\* The promise returned by the processor rejects
ProcessorRejects(l) ==
  /\ UNCHANGED <<destroyed, mergeVars, sharedVars>>
  /\ streamLoaders[l].phase = "processor"
  /\ SetLoaderState(unhandledRejection(LoaderState, l, "unhandled rejection"))

\* The server sends a status event named `event`
StatusEvent(event, data) ==
  /\ UNCHANGED <<destroyed, mergeVars, sharedVars>>
  /\ statusURL \in DOMAIN sharedEventSources
  /\ SetLoaderState([LoaderState EXCEPT !.loaders =
       dispatchEvent(@, sharedEventSources[statusURL].listeners, event, data)])

\* The EventSource connects or reconnects: its 'open' event
SourceOpens ==
  /\ UNCHANGED <<destroyed, mergeVars, sharedVars>>
  /\ statusURL \in DOMAIN sharedEventSources
  /\ SetLoaderState(openListener(LoaderState, statusURL))

\* destroy() of loader l, called once by the registry of shared loaders
DestroyLoader(l) ==
  /\ UNCHANGED <<mergeVars, sharedVars>>
  /\ streamLoaders[l].constructed /\ streamLoaders[l].pooled
  /\ destroyed' = destroyed \cup {l}
  /\ SetLoaderState(destroyLoader(LoaderState, l))

NextLoader ==
  \/ \E l \in LoaderIds : ConstructLoader(l)
  \/ \E l \in LoaderIds, id \in 1..2 : TimerFires(l, id)
  \/ \E l \in LoaderIds : LoaderResponseOk(l)
  \/ \E l \in LoaderIds, r \in DOMAIN requests : LoaderRequestFails(l, r)
  \/ \E l \in LoaderIds, hdr \in Headers : HeaderRead(l, hdr)
  \/ \E l \in LoaderIds : HeaderEmpty(l)
  \/ \E l \in LoaderIds : HeaderFails(l)
  \/ \E l \in LoaderIds : ProcessorResolves(l)
  \/ \E l \in LoaderIds : ProcessorRejects(l)
  \/ \E event \in Range(StatusEvents), data \in Superseded : StatusEvent(event, data)
  \/ SourceOpens
  \/ \E l \in LoaderIds : DestroyLoader(l)

InitShared == PoolIdle /\ MergeIdle /\ SharedIdle /\ LoaderIdle

SpecShared == InitShared /\ [][NextShared]_vars

NextMerge == StreamedDataProcessor \/ SingletonDataProcessor

InitMerge == PoolIdle /\ SharedIdle /\ LoaderIdle /\ ProcessorConstructed

SpecMerge == InitMerge /\ [][NextMerge]_vars

InitPool == PoolIdle /\ MergeIdle /\ SharedIdle /\ LoaderIdle

SpecPool == InitPool /\ [][NextPool]_vars

InitLoader == PoolIdle /\ MergeIdle /\ SharedIdle /\ LoaderIdle

SpecLoader == InitLoader /\ [][NextLoader]_vars

(***************************************************************************)
(* Properties of the request pools.                                        *)
(***************************************************************************)
InPool(r) ==
  \E n \in DOMAIN pools : r \in pools[n].active \cup Range(pools[n].queued)

\* C1: in every pool the number of active requests never exceeds the pool's
\* limit, whatever sequence of enqueue, release, completion, failure and
\* cancel operations has run.
ActiveWithinLimit ==
  \A n \in DOMAIN pools : Cardinality(pools[n].active) <= pools[n].limit

\* A burst larger than the limit: the pool is full and three requests wait.
ActiveAtLimitWithBurst ==
  \E n \in DOMAIN pools :
    /\ Cardinality(pools[n].active) = pools[n].limit
    /\ Len(pools[n].queued) >= 3

\* C2: once the handlers of a failed or canceled request have run, the
\* request is neither queued nor active in its pool.
FailedRequestLeavesPool ==
  TaskStart =>
    \A r \in DOMAIN requests : requests[r].promise = "rejected" => ~InPool(r)

\* C3, order of the queue: requests wait in the order they were enqueued
\* (a request is enqueued when it is constructed, so ids grow along the queue).
QueueInOrder ==
  \A n \in DOMAIN pools :
    \A i, j \in DOMAIN pools[n].queued : i < j => pools[n].queued[i] < pools[n].queued[j]

\* C3, burst: while none of the requests enqueued so far has left the pool,
\* the first `limit` of them are active and the others wait in order (five
\* requests, limit 2: two active, three queued).
BurstFillsPool ==
  \A n \in DOMAIN pools :
    (created > 0 /\ \A r \in 1..created : r \in DOMAIN requests /\ InPool(r)) =>
      /\ pools[n].active = {r \in 1..created : r <= pools[n].limit}
      /\ pools[n].queued = [i \in 1..(IF created > pools[n].limit THEN created - pools[n].limit ELSE 0)
                              |-> i + pools[n].limit]

\* C3, admission: a step admits at most one request per pool, the head of
\* the queue, so no request enqueued earlier is still waiting behind it.
AdmitsHead ==
  \A n \in DOMAIN pools' :
    LET before == IF n \in DOMAIN pools THEN pools[n]
                  ELSE [limit |-> DefaultLimit, queued |-> <<>>, active |-> {}]
        admitted == pools'[n].active \ before.active
    IN  /\ Cardinality(admitted) <= 1
        /\ \A b \in admitted :
             /\ \A a \in Range(pools'[n].queued) : b < a
             /\ before.queued # <<>> => b = Head(before.queued)

\* C3, release: when an active request leaves a pool whose queue is not
\* empty, exactly the head of the queue is admitted and the others keep
\* their order.
ReleaseAdmitsOne ==
  \A n \in DOMAIN pools :
    (pools[n].active \ pools'[n].active # {} /\ pools[n].queued # <<>>) =>
      /\ pools'[n].active \ pools[n].active = {Head(pools[n].queued)}
      /\ pools'[n].queued = Tail(pools[n].queued)

\* C3: admission to a pool is first in, first out.
FifoAdmission ==
  /\ [](QueueInOrder /\ BurstFillsPool)
  /\ [][AdmitsHead /\ ReleaseAdmitsOne]_vars

\* Five requests were enqueued, the first was released, the third admitted.
BurstThenRelease ==
  /\ created = 5
  /\ \E n \in DOMAIN pools : pools[n].active = {2, 3} /\ pools[n].queued = <<4, 5>>

\* C4: a request on which cancel() has run while its promise was pending has
\* its promise rejected, whether it was queued or active.
CancelRejectsPromise ==
  \A r \in canceled : requests[r].promise = "rejected"

(***************************************************************************)
(* Properties of the shared data loaders.                                  *)
(***************************************************************************)
\* The processors of the forwarders, in the order of the forwarders
ForwarderProcessors(forwarders) == [i \in DOMAIN forwarders |-> forwarders[i].processor]

\* C5: from every state, two referenceDataLoader calls with the same class
\* and configurations that have the same properties return the same
\* loader, the second constructs none, the registry holds exactly one
\* specification for the class and fingerprint, whose processors include
\* the processors of both calls; and a call for a specification that is in
\* the registry returns the loader of that specification.
SharedLoaderReused ==
  \A Subclass \in Subclasses : \A c1, c2 \in Clients :
    Range(c1.config) = Range(c2.config) =>
      LET r1 == referenceDataLoader(Registry, Subclass, c1.config, c1.processor, c1.target)
          r2 == referenceDataLoader(r1.registry, Subclass, c2.config, c2.processor, c2.target)
          key == <<Subclass, objectHash(c1.config)>>
      IN  /\ r2.value = r1.value
          /\ Len(r2.registry.loaders) = Len(r1.registry.loaders)
          /\ key \in DOMAIN dataLoaders => r1.value = dataLoaders[key]
          /\ Cardinality({k \in DOMAIN r2.registry.dataLoaders :
                            r2.registry.loaders[r2.registry.dataLoaders[k]].Subclass = Subclass})
               = 1
          /\ {c1.processor, c2.processor}
               \subseteq Range(r2.registry.specs[r2.value].processors)

\* Two clients whose configuration objects list the same properties in a
\* different order share the one loader that was constructed.
TwoClientsOneLoader ==
  /\ Len(loaders) = 1
  /\ \E k \in DOMAIN dataLoaders :
       Range(specs[dataLoaders[k]].processors) = {c.processor : c \in Clients}
  /\ \E c1, c2 \in Clients : c1.config # c2.config

\* dereferenceDataLoader for each of the processors in turn
RECURSIVE dereferenceAll(_, _, _)
dereferenceAll(rg, loader, processors) ==
  IF processors = << >> THEN [registry |-> rg, value |-> TRUE]
  ELSE LET r == dereferenceDataLoader(rg, loader, Head(processors), NoTarget)
           rest == dereferenceAll(r.registry, loader, Tail(processors))
       IN  [registry |-> rest.registry, value |-> r.value /\ rest.value]

\* C6: a loader whose specification has left the registry has had its
\* destroy() invoked exactly once, and a loader in the registry never; from
\* every state, dereferencing all processors of a specification (each call
\* returning true) removes it and invokes destroy() once, and a reference
\* with the same class and configuration then constructs a new loader.
LoaderDestroyedOnce ==
  /\ \A l \in DOMAIN loaders :
       loaders[l].destroys = IF l \in Range(dataLoaders) THEN 0 ELSE 1
  /\ \A k \in DOMAIN dataLoaders :
       LET l == dataLoaders[k]
           r == dereferenceAll(Registry, l, specs[l].processors)
       IN  /\ r.value
           /\ k \notin DOMAIN r.registry.dataLoaders
           /\ r.registry.loaders[l].destroys = 1
           /\ \A c \in Clients :
                LET again == referenceDataLoader(r.registry, k[1], c.config,
                                                 c.processor, c.target)
                IN  /\ again.value = Len(loaders) + 1
                    /\ again.registry.loaders[l].destroys = 1
                    /\ again.registry.loaders[again.value].destroys = 0

\* A loader was destroyed once when its last processor was dereferenced, and
\* a later reference with the same class constructed another loader.
LoaderReplaced ==
  \E l \in DOMAIN loaders : \E k \in DOMAIN dataLoaders :
    /\ l \notin Range(dataLoaders) /\ loaders[l].destroys = 1
    /\ k[1] = loaders[l].Subclass /\ dataLoaders[k] > l

\* C7, the processor sets: every specification in the registry has a
\* processor.
ProcessorsNotEmpty ==
  \A k \in DOMAIN dataLoaders : specs[dataLoaders[k]].processors # << >>

\* C7, deletion: a step that takes a specification out of the registry is a
\* dereferenceDataLoader call for the only processor the specification has.
DeletedByLastDereference ==
  \A k \in DOMAIN dataLoaders \ DOMAIN dataLoaders' :
    LET l == dataLoaders[k]
    IN  /\ Len(specs[l].processors) = 1
        /\ \E c \in Clients : \E target \in {c.target, NoTarget} :
             LET r == dereferenceDataLoader(Registry, l, c.processor, target)
             IN  /\ c.processor = specs[l].processors[1]
                 /\ r.value
                 /\ dataLoaders' = r.registry.dataLoaders
                 /\ loaders' = r.registry.loaders

\* C7: every specification in the registry has a non-empty processor set,
\* and a specification is deleted in the dereferenceDataLoader call that
\* removes its last processor and in no other operation.
SpecDeletedWithLastProcessor ==
  /\ []ProcessorsNotEmpty
  /\ [][DeletedByLastDereference]_vars

\* One specification has been deleted and another one is in the registry.
OneSpecDeleted ==
  \E l \in DOMAIN loaders : \E k \in DOMAIN dataLoaders :
    /\ l \notin Range(dataLoaders)
    /\ k[1] # loaders[l].Subclass

\* The bucket as the values of its keys
Contents(bucket) == [k \in DOMAIN bucket.map |-> bucket.map[k].val]

\* The specification of loader l after a client has referenced it and the
\* timeout set by that call has run
JoinLoaded(l, client) ==
  LET r == referenceDataLoader(Registry, specs[l].Subclass, client.config,
                               client.processor, client.target)
  IN  catchupTimeout(r.registry.specs[l])

\* What the catch-up of specification spec sent to a processor
Replayed(spec, processor) ==
  {spec.replay[i] : i \in {n \in DOMAIN spec.replay : spec.replay[n].processor = processor}}

\* C8: a processor that references a specification in state 'loaded' is sent
\* by the catch-up exactly the mirrored snapshot and then the end of the
\* stream, and the bucket it builds from that equals the bucket built by a
\* processor that was registered before the loads ran.
CatchupBucketEqualsLive ==
  \A l \in Range(dataLoaders) : \A client \in Clients :
    specs[l].state = "loaded" =>
      LET spec == JoinLoaded(l, client)
      IN  /\ Replayed(spec, client.processor) # {}
          /\ \A fwd \in Replayed(spec, client.processor) :
                /\ fwd.got = specs[l].objects /\ fwd.closed
                /\ Contents(BucketAfter(UndefinedBucket, fwd.got, spec.header))
                     = Contents(specs[l].bucket)

\* A processor that references a specification in state 'loaded' is sent by
\* the catch-up exactly the mirrored snapshot and then the end of the stream.
JoinerReceivesMirror ==
  \A l \in Range(dataLoaders) : \A client \in Clients :
    specs[l].state = "loaded" =>
      LET spec == JoinLoaded(l, client)
      IN  /\ Replayed(spec, client.processor) # {}
          /\ \A fwd \in Replayed(spec, client.processor) :
                fwd.got = specs[l].objects /\ fwd.closed

\* The buckets are equal after a load that replaced the bucket with a stream
\* in which no key occurs twice.
JoinerBucketAfterPlainLoad ==
  \A l \in Range(dataLoaders) : \A client \in Clients :
    (/\ specs[l].state = "loaded"
     /\ ~specs[l].header.update
     /\ \A m, n \in DOMAIN specs[l].stream :
          specs[l].stream[m][1] = specs[l].stream[n][1] => m = n) =>
      \A fwd \in Replayed(JoinLoaded(l, client), client.processor) :
        Contents(BucketAfter(UndefinedBucket, fwd.got, specs[l].header))
          = Contents(specs[l].bucket)

\* Every processor served by a catch-up has received the mirrored snapshot
\* and then the end of the stream.
CatchupReplaysMirror ==
  \A l \in DOMAIN specs : \A i \in DOMAIN specs[l].replay :
    specs[l].replay[i].got = specs[l].objects /\ specs[l].replay[i].closed

\* C9: in every state of a distribution cycle each forwarder made for the
\* cycle has been given exactly the rows read so far from the loader's
\* stream, in the order of the stream, and has been closed if and only if
\* the cycle has read the end of the stream, which it does only after
\* all rows; a cycle that starts makes a forwarder for every processor of
\* the specification.
DistributionInOrder ==
  \A l \in DOMAIN specs :
    LET spec == specs[l]
    IN  /\ spec.read = SubSeq(spec.stream, 1, Len(spec.read))
        /\ \A i \in DOMAIN spec.forwarders :
             /\ spec.forwarders[i].got = spec.read
             /\ spec.forwarders[i].closed <=> spec.state = "loaded"
        /\ spec.state = "loaded" => spec.read = spec.stream
        /\ spec.running => spec.state = "loading"
        /\ \A rows \in LoaderStreams :
             ForwarderProcessors(
               sharedProcessorStart(spec, rows, [update |-> FALSE]).forwarders)
               = spec.processors

\* A cycle for two processors has given both of them the two rows of the
\* stream and the end of the stream.
TwoProcessorsServed ==
  \E l \in DOMAIN specs :
    /\ specs[l].state = "loaded"
    /\ Len(specs[l].stream) = 2
    /\ Len(specs[l].forwarders) = 2
    /\ \A i \in DOMAIN specs[l].forwarders :
         specs[l].forwarders[i].got = specs[l].stream /\ specs[l].forwarders[i].closed

(***************************************************************************)
(* Properties of the entity processor.                                     *)
(***************************************************************************)
\* The rows of the stream whose key is valid
ValidRows == {i \in DOMAIN entities : KeyOkay(entities[i][1], keyPrefix)}

\* The local keys that occur in the stream with a valid key
StreamKeys == {LocalKey(entities[i][1], keyPrefix) : i \in ValidRows}

\* The local keys that occur with a valid key and a non-null entity
StreamEntityKeys ==
  {LocalKey(entities[i][1], keyPrefix) : i \in {j \in ValidRows : entities[j][2] # Null}}

\* No local key occurs in more than one valid row of the stream
DistinctKeys ==
  \A i, j \in ValidRows :
    LocalKey(entities[i][1], keyPrefix) = LocalKey(entities[j][1], keyPrefix) => i = j

DestroyCount(ref) == IF ref \in DOMAIN destroyCalls THEN destroyCalls[ref] ELSE 0

\* The outcome of a merge that replaces the bucket: the keys of the bucket
\* are those of the stream's entities, every entity whose key is absent from
\* the stream is gone and destroyed once, and an entity equal to its incoming
\* entity is still the same object and was not destroyed
ReplaceOutcome ==
  LET before == bucketBefore.map
      after == CurrentBucket.map
  IN  /\ CurrentBucket.defined
      /\ DOMAIN after = StreamEntityKeys
      /\ \A k \in DOMAIN before \ StreamKeys :
           k \notin DOMAIN after /\ DestroyCount(before[k].ref) = 1
      /\ \A k \in DOMAIN before :
           (\E i \in ValidRows : /\ LocalKey(entities[i][1], keyPrefix) = k
                                 /\ entities[i][2] # Null
                                 /\ entities[i][2].val = before[k].val)
             => /\ k \in DOMAIN after /\ after[k] = before[k]
                /\ DestroyCount(before[k].ref) = 0

\* C10: after a merge whose header.update is false the bucket
\* holds exactly the keys of the stream's valid non-null rows, the existing
\* entities absent from the stream are removed and destroyed once, and an
\* existing entity equal to its incoming entity keeps its reference and is
\* not destroyed, for every stream.
ReplaceMergeAnyStream ==
  (merges = 1 /\ ~header.update) => ReplaceOutcome

\* For streams in which no key occurs in more than one valid row: after
\* a merge whose header.update is false the bucket holds exactly the keys of
\* the stream's valid non-null rows, the existing entities absent from the
\* stream are removed and destroyed once, and an existing entity equal to its
\* incoming entity keeps its reference and is not destroyed.
ReplaceMergeDistinctKeys ==
  (merges = 1 /\ ~header.update /\ DistinctKeys) => ReplaceOutcome

\* The bucket {a: 1, b: 2} merged with the stream [[a, 1], [c, 3]] has
\* become {a: 1, c: 3}: a is the old object, c the incoming one, b was
\* destroyed once.
ReplaceExample ==
  /\ merges = 1 /\ ~header.update /\ keyPrefix = "test"
  /\ bucketBefore = [defined |-> TRUE,
                     map |-> (<<"a">> :> [ref |-> 1, val |-> 1])
                               @@ (<<"b">> :> [ref |-> 2, val |-> 2])]
  /\ [i \in DOMAIN entities |-> <<entities[i][1], entities[i][2].val>>]
       = << <<<<"test", "a">>, 1>>, <<<<"test", "c">>, 3>> >>
  /\ CurrentBucket.map = (<<"a">> :> [ref |-> 1, val |-> 1])
                           @@ (<<"c">> :> [ref |-> 12, val |-> 3])
  /\ DestroyCount(1) = 0 /\ DestroyCount(2) = 1

\* C11: after a merge whose header.update is true every entity of the bucket
\* whose key does not occur in the stream is still in the bucket, is the
\* same object, and has not been destroyed.
UpdateMergeKeepsAbsent ==
  (merges >= 1 /\ header.update) =>
    \A k \in DOMAIN bucketBefore.map \ StreamKeys :
      /\ k \in DOMAIN CurrentBucket.map
      /\ CurrentBucket.map[k] = bucketBefore.map[k]
      /\ DestroyCount(bucketBefore.map[k].ref) = 0

\* The second run of the processor on the same response
SecondMerge == merges = 1 /\ merges' = 2

\* C12: the second merge of the same stream with header.update true
\* publishes no new bucket object and destroys no entity.
UpdateMergeIdempotent ==
  [][(SecondMerge /\ header.update) =>
       (container' = container /\ destroyCalls' = destroyCalls)]_vars

\* The second merge of a stream in which no key occurs in more than one
\* valid row publishes no new bucket object and destroys no entity,
\* whatever header.update is.
RepeatedMergeDistinctKeys ==
  [][(SecondMerge /\ DistinctKeys) =>
       (container' = container /\ destroyCalls' = destroyCalls)]_vars

\* The requests that are queued or active in a pool of the pool state st
Pooled(st) ==
  UNION {st.pools[n].active \cup Range(st.pools[n].queued) : n \in DOMAIN st.pools}

\* The run of the singleton processor made in this step threw
SingletonThrows == single'.runs = single.runs + 1 /\ single'.thrown

\* A run of the singleton processor that throws leaves the property of the
\* container and the remembered key as they were.
OverflowKeepsProperty ==
  [][SingletonThrows => single'.value = single.value /\ single'.key = single.key]_vars

\* C17: a run of the singleton processor that throws because more than
\* one entity would be left keeps the property of the container and the
\* remembered key, and has not called destroy() on the entity held before.
OverflowRejectsMerge ==
  [][SingletonThrows =>
       /\ single'.value = single.value /\ single'.key = single.key
       /\ single.value # Null => single.value.ref \notin single'.destroyed]_vars

\* The singleton processor threw, and the entity that its container still
\* holds has been torn down.
OverflowAfterTeardown ==
  single.thrown /\ single.value # Null /\ single.value.ref \in single.destroyed

\* C16: queueDataRequest on a context that has an outstanding request throws
\* and leaves the requests, the context and the pools as they were; once
\* the context has released its request, queueDataRequest does not throw
\* and the new request of the context is in the pool.
OneOutstandingRequest ==
  \A c \in Contexts : \A pool \in PoolNames :
    dataRequest[c] # Undefined =>
      LET again == queueDataRequest(PoolState, c, pool)
          released == releaseDataRequest(PoolState, c)
          next == queueDataRequest(released, c, pool)
      IN  /\ again.error /\ again.st = PoolState
          /\ released.dataRequest[c] = Undefined
          /\ ~next.error
          /\ next.st.dataRequest[c] = created + 1
          /\ next.st.dataRequest[c] \in Pooled(next.st)
          /\ dataRequest[c] \notin Pooled(next.st)

\* Context 1 has released its first request and queued a second one, which
\* is outstanding.
QueuedAgainAfterRelease ==
  /\ created = 2 /\ dataRequest[1] = 2
  /\ "default" \in DOMAIN pools /\ 2 \in pools["default"].active

(***************************************************************************)
(* Properties of the updating streamed data loaders.                       *)
(***************************************************************************)
\* Loader l has a listener on the status event source
Listening(l) ==
  /\ statusURL \in DOMAIN sharedEventSources
  /\ <<streamLoaders[l].statusEvent, l>> \in Range(sharedEventSources[statusURL].listeners)

\* Loader l after the server has sent its status event with `data`
AfterStatusEvent(l, data) ==
  dispatchEvent(streamLoaders, sharedEventSources[statusURL].listeners,
                streamLoaders[l].statusEvent, data)[l]

\* A superseded timestamp of `data` exceeds the timestamp recorded by ld
Exceeds(ld, data) ==
  \E name \in DOMAIN data :
    data[name] > (IF name \in DOMAIN ld.timestamps THEN ld.timestamps[name] ELSE 0)

\* C13: a status event with a superseded timestamp above the recorded one,
\* received by an idle loader, leaves the loader pending with exactly one
\* timeout, of delay 0; received by a loader whose request cycle is active
\* it arms no timeout and leaves the request state as it is.
StatusEventArmsReload ==
  \A l \in LoaderIds : \A data \in Superseded :
    (Listening(l) /\ Exceeds(streamLoaders[l], data)) =>
      LET ld == streamLoaders[l]
          after == AfterStatusEvent(l, data)
      IN  /\ ld.requestState = "idle" =>
                /\ after.requestState = "pending"
                /\ after.requestDelay = 0
                /\ DOMAIN after.timers = {after.requestId}
                /\ after.timers[after.requestId] = 0
          /\ ld.requestState = "active" =>
                /\ after.requestState = "active"
                /\ after.timers = ld.timers

\* A loaded loader that recorded the timestamp 1 is pending again for an
\* immediate request, and another loader keeps the event data it received
\* during its request cycle.
ReloadArmedAndEventKept ==
  \E l, k \in LoaderIds :
    /\ streamLoaders[l].state = 0 /\ streamLoaders[l].timestamps = ("X" :> 1)
    /\ streamLoaders[l].requestState = "pending" /\ streamLoaders[l].requestDelay = 0
    /\ streamLoaders[k].requestState = "active" /\ streamLoaders[k].phase = "request"
    /\ streamLoaders[k].statusEventData \in Superseded

\* The header of a response without count
Busy == [count |-> FALSE, timestamps |-> << >>]

\* C14: when the header of a response has no count, the loader (not
\* destroyed) does not call the processor, has the unloaded bit set, has
\* released its request, and is pending with one timeout of delay 0; this
\* holds for every such response, however many came before.
BusyResponseRetried ==
  \A l \in LoaderIds :
    (streamLoaders[l].phase = "header" /\ streamLoaders[l].pooled) =>
      LET after == headerRead(LoaderState, l, Busy)
          ld == after.loaders[l]
      IN  /\ ld.phase = ""
          /\ (ld.state \div unloadedStateBit) % 2 = 1
          /\ after.pool.dataRequest[l] = Undefined
          /\ dataRequest[l] \notin Pooled(after.pool)
          /\ ld.requestState = "pending" /\ ld.requestDelay = 0
          /\ DOMAIN ld.timers = {ld.requestId} /\ ld.timers[ld.requestId] = 0

\* The only loader has made two requests and the second was answered
\* without count: it is unloaded, without error, and pending for an
\* immediate request.
BusyResponseHandled ==
  \E l \in LoaderIds :
    /\ \A k \in LoaderIds \ {l} : ~streamLoaders[k].constructed
    /\ created = 2 /\ requests = << >>
    /\ streamLoaders[l].state = unloadedStateBit
    /\ streamLoaders[l].timestamps = << >>
    /\ streamLoaders[l].requestState = "pending" /\ streamLoaders[l].requestDelay = 0

\* After a failed cycle: the error bit is set, the request is released, and
\* the loader is pending with one timeout of errorDelay
BackoffArmed(after, l, r) ==
  LET ld == after.loaders[l]
  IN  /\ (ld.state \div errorStateBit) % 2 = 1
      /\ after.pool.dataRequest[l] = Undefined
      /\ r \notin Pooled(after.pool)
      /\ ld.phase = ""
      /\ ld.requestState = "pending" /\ ld.requestDelay = errorDelay
      /\ DOMAIN ld.timers = {ld.requestId} /\ ld.timers[ld.requestId] = errorDelay

\* A request of loader l (not destroyed) that fails, whether the response
\* is not ok or the fetch rejects, leaves the loader as BackoffArmed says.
RequestFailureArmsBackoff ==
  \A l \in LoaderIds :
    (streamLoaders[l].phase = "request" /\ streamLoaders[l].pooled) =>
      BackoffArmed(requestRejected(LoaderState, l, dataRequest[l]), l, dataRequest[l])

\* C15: every failure of a request cycle of a loader (not destroyed), be it
\* of the request, of the read of the header or of the processor, sets the
\* error bit, releases the request and leaves the loader pending with one
\* timeout of errorDelay.
FailureArmsBackoff ==
  \A l \in LoaderIds :
    streamLoaders[l].pooled =>
      /\ streamLoaders[l].phase = "request" =>
            BackoffArmed(requestRejected(LoaderState, l, dataRequest[l]), l, dataRequest[l])
      /\ streamLoaders[l].phase \in {"header", "processor"} =>
            BackoffArmed(unhandledRejection(LoaderState, l, "unhandled rejection"),
                         l, dataRequest[l])

\* The hub of the status URL
Hub == sharedEventSources[statusURL]

\* No member occurs twice in the list
NoDuplicates(list) ==
  \A i, j \in DOMAIN list : list[i] = list[j] => i = j

\* C18: addListener for a pair (event, listener) that is registered throws
\* and leaves the hub as it was, removeListener for a pair that is not
\* registered throws and leaves the hub as it was, and no pair is
\* registered twice, neither in the hub nor on its event source.
ListenerRegisteredOnce ==
  statusURL \in DOMAIN sharedEventSources =>
    /\ \A event \in Range(StatusEvents) : \A l \in LoaderIds :
         IF l \in Range(ListenersOf(Hub, event))
         THEN addListener(Hub, event, l) = [hub |-> Hub, error |-> TRUE]
         ELSE removeListener(Hub, event, l) = [hub |-> Hub, error |-> TRUE]
    /\ \A event \in Range(StatusEvents) :
         /\ NoDuplicates(ListenersOf(Hub, event))
         /\ \A l \in LoaderIds :
              LET added == addListener(Hub, event, l).hub
              IN  /\ NoDuplicates(ListenersOf(added, event))
                  /\ NoDuplicates(added.listeners)
    /\ NoDuplicates(Hub.listeners)
    /\ NoDuplicates([i \in DOMAIN Hub.eventListeners |-> Hub.eventListeners[i][1]])

\* The listener of loader 1 is registered for its event, and the listener
\* of loader 2 has been registered and removed.
OneListenerRemoved ==
  /\ statusURL \in DOMAIN sharedEventSources
  /\ Range(ListenersOf(Hub, StatusEvents[1])) = {1}
  /\ streamLoaders[2].constructed /\ ~streamLoaders[2].pooled
  /\ ListenersOf(Hub, StatusEvents[2]) = << >>

\* Exactly one timeout is armed for the loader, with delay 0
ImmediateReload(ld) ==
  /\ ld.requestState = "pending" /\ ld.requestDelay = 0
  /\ DOMAIN ld.timers = {ld.requestId} /\ ld.timers[ld.requestId] = 0

\* C19: the first 'open' of the hub changes no loader; a later 'open'
\* gives every loader whose listener is registered the notification
\* {superseded: {reopen: 1}} exactly once and no other loader anything,
\* and a loader that is idle when it receives it is left with one timeout
\* of delay 0.
ReopenKicksListeners ==
  statusURL \in DOMAIN sharedEventSources =>
    LET after == openListener(LoaderState, statusURL)
    IN  /\ after.sources[statusURL] = [Hub EXCEPT !.open = TRUE]
        /\ after.pool = PoolState
        /\ ~Hub.open => after.loaders = streamLoaders
        /\ Hub.open =>
              \A l \in LoaderIds :
                IF Listening(l)
                THEN /\ after.loaders[l] = statusEventListener(streamLoaders[l], Reopen)
                     /\ streamLoaders[l].requestState = "idle" =>
                           ImmediateReload(after.loaders[l])
                ELSE after.loaders[l] = streamLoaders[l]

\* The hub is open and a loader that has loaded, with the highest
\* timestamp a status event can carry, is pending with one timeout of
\* delay 0 and no event data kept: the notification of a reopening was
\* received while it was idle.
ReloadAfterReopen ==
  /\ statusURL \in DOMAIN sharedEventSources /\ Hub.open
  /\ \E l \in LoaderIds :
       /\ Listening(l)
       /\ streamLoaders[l].state = 0
       /\ streamLoaders[l].timestamps = ("X" :> 2)
       /\ streamLoaders[l].statusEventData = NoEventData
       /\ ImmediateReload(streamLoaders[l])

\* The processor is registered in the specification of the loader, which is
\* in the registry
Registered(loader, processor) ==
  /\ loader \in Range(dataLoaders)
  /\ processor \in Range(specs[loader].processors)

\* C20: dereferenceDataLoader with a loader that is not in the registry, or
\* with a processor that is not registered in the specification of the
\* loader, returns false and leaves the registry as it is: the processors,
\* the target counts, the specifications and the destroy() calls received
\* by the loaders.
DereferenceUnknownChangesNothing ==
  \A loader \in DOMAIN loaders : \A client \in Clients :
    \A target \in {client.target, "document", NoTarget} :
      ~Registered(loader, client.processor) =>
        LET r == dereferenceDataLoader(Registry, loader, client.processor, target)
        IN  /\ r.value = FALSE
            /\ r.registry = Registry
            /\ CollectSpecs(r.registry) = Registry

\* A loader has left the registry, and the specification of a loader in the
\* registry has the processor p1 and a count for its target but not the
\* processor p2.
UnknownLoaderAndProcessor ==
  /\ \E loader \in DOMAIN loaders : loader \notin Range(dataLoaders)
  /\ \E loader \in Range(dataLoaders) :
       /\ specs[loader].processors = <<"p1">>
       /\ DOMAIN specs[loader].targets = {"document"}

\* C21: in no pool does a request wait while the active set holds fewer
\* requests than the limit; and dequeue of an active request of a full pool
\* with waiting requests returns with the head of the queue admitted.
WorkConserving ==
  \A n \in DOMAIN pools :
    /\ pools[n].queued # << >> => Cardinality(pools[n].active) >= pools[n].limit
    /\ \A r \in pools[n].active :
         LET after == dequeue(PoolState, r).pools[n]
         IN  /\ after.queued # << >> => Cardinality(after.active) >= after.limit
             /\ pools[n].queued # << >> =>
                  /\ after.active = (pools[n].active \ {r}) \cup {Head(pools[n].queued)}
                  /\ after.queued = Tail(pools[n].queued)

\* Four requests were enqueued; the first has left the pool and the third
\* has its slot, the fourth waits.
SlotPassedOn ==
  /\ created = 4
  /\ \E n \in DOMAIN pools : pools[n].active = {2, 3} /\ pools[n].queued = <<4>>

\* C22: dequeue of a request, queued or active, leaves the request in
\* neither the queue nor the active set of its pool, and a second dequeue of
\* the same request, which is then in neither, returns the same state: it
\* admits and removes nothing.
DequeueIdempotent ==
  \A r \in DOMAIN requests :
    LET n == requests[r].pool
        once == dequeue(PoolState, r)
        twice == dequeue(once, r)
    IN  /\ r \notin once.pools[n].active \cup Range(once.pools[n].queued)
        /\ \A q \in DOMAIN requests \ {r} :
             q \in Pooled(PoolState) <=> q \in Pooled(once)
        /\ twice = once

\* The third of four requests was canceled while it waited and has left
\* the queue; the requests before it are active and the fourth waits.
DequeuedFromQueue ==
  /\ created = 4 /\ 3 \notin DOMAIN requests
  /\ \E n \in DOMAIN pools : pools[n].active = {1, 2} /\ pools[n].queued = <<4>>

\* The place of a state of a request in '' -> 'queueud' -> 'active'
StateRank(state) == IF state = "" THEN 0 ELSE IF state = "queueud" THEN 1 ELSE 2

\* No request is twice in a pool: not twice in a queue, not in a queue and
\* active, not in two pools
OnceInPool ==
  /\ \A n \in DOMAIN pools :
       /\ NoDuplicates(pools[n].queued)
       /\ pools[n].active \cap Range(pools[n].queued) = {}
  /\ \A n, m \in DOMAIN pools :
       n # m => (pools[n].active \cup Range(pools[n].queued))
                  \cap (pools[m].active \cup Range(pools[m].queued)) = {}

\* enqueue of a request whose state is past '' throws and changes nothing,
\* also after the request has been dequeued
EnqueueOnce ==
  \A r \in DOMAIN requests :
    LET out == dequeue(PoolState, r)
    IN  /\ requests[r].state \in {"queueud", "active"}
        /\ enqueueThrows(PoolState, r) /\ enqueue(PoolState, r) = PoolState
        /\ enqueueThrows(out, r) /\ enqueue(out, r) = out

\* The state of a request does not go back, and a request that enters a
\* pool is a new one
StateForward ==
  /\ \A r \in DOMAIN requests \cap DOMAIN requests' :
       StateRank(requests'[r].state) >= StateRank(requests[r].state)
  /\ \A r \in DOMAIN requests' :
       (InPool(r)' /\ ~InPool(r)) => r \notin DOMAIN requests /\ r > created
  /\ \A r \in DOMAIN requests' :
       (\E n \in DOMAIN pools' : r \in pools'[n].active) => requests'[r].state = "active"

\* C23: the state of a request only moves forward through '', 'queueud'
\* and 'active'; enqueue of a request past '' throws and leaves the pools
\* unchanged; no request is in a pool twice and none enters a pool again.
RequestStateMonotonic ==
  /\ [](OnceInPool /\ EnqueueOnce)
  /\ [][StateForward]_vars

\* Of four requests the third went from the queue to the active set and
\* the fourth is queued.
QueuedThenActive ==
  /\ 3 \in DOMAIN requests /\ requests[3].state = "active"
  /\ 4 \in DOMAIN requests /\ requests[4].state = "queueud"
  /\ \E n \in DOMAIN pools : 3 \in pools[n].active /\ 4 \in Range(pools[n].queued)

\* The cycle of loader l ends in this step with its result processed: the
\* promise of the processor was awaited, or the header was read and has no
\* count (the unloaded bit is set and the retry armed), or the request
\* failed (the error bit is set and the timeout of errorDelay armed)
ResultProcessed(l) ==
  LET a == streamLoaders[l]
      b == streamLoaders'[l]
  IN  /\ b.phase = "" /\ b.thrown = ""
      /\ dataRequest'[l] = Undefined
      /\ \/ a.phase = "processor" /\ b.requestState = "idle"
         \/ /\ a.phase = "header" /\ ImmediateReload(b)
            /\ b.state = SetBit(b.state, unloadedStateBit)
         \/ /\ a.phase = "request"
            /\ b.state = SetBit(b.state, errorStateBit)
            /\ b.requestState = "pending" /\ b.requestDelay = errorDelay
            /\ DOMAIN b.timers = {b.requestId} /\ b.timers[b.requestId] = errorDelay

\* The change of the request state of loader l in a step: a timeout is
\* armed on leaving idle, the timeout has fired on becoming active, and an
\* active cycle ends (and may arm the next timeout in the same handler) only
\* with its result processed
RequestStateStep(l) ==
  LET a == streamLoaders[l]
      b == streamLoaders'[l]
  IN  \/ a.requestState = b.requestState
      \/ /\ a.requestState \in {"", "idle"} /\ b.requestState = "pending"
         /\ DOMAIN b.timers = {b.requestId}
      \/ /\ a.requestState = "pending" /\ b.requestState = "active"
         /\ a.requestId \in DOMAIN a.timers /\ b.timers = << >>
      \/ /\ a.requestState = "active" /\ b.requestState \in {"idle", "pending"}
         /\ ResultProcessed(l)

\* C24: the request state of a loader only goes from idle to pending with a
\* timeout armed, from pending to active when the timeout fires, and from
\* active to idle (and on to pending within the same handler) when the
\* result of the request has been processed: the processor's promise has
\* resolved, the header without count was read, or the failure was recorded.
RequestStateCycle ==
  [][\A l \in LoaderIds : RequestStateStep(l)]_vars

\* A loader has gone through a whole cycle and is idle with its data loaded,
\* no request and no timeout.
CycleCompleted ==
  \E l \in LoaderIds :
    /\ streamLoaders[l].requestState = "idle" /\ streamLoaders[l].state = 0
    /\ streamLoaders[l].timers = << >> /\ dataRequest[l] = Undefined
    /\ streamLoaders[l].pooled

\* The delays the loader asks for: at once, and after an error
Delays == {0, errorDelay}

\* The timeout of a pending loader is the only one and has the delay the
\* loader recorded; a loader that is not pending has none
OneTimer(ld) ==
  IF ld.requestState = "pending"
  THEN DOMAIN ld.timers = {ld.requestId} /\ ld.timers[ld.requestId] = ld.requestDelay
  ELSE ld.timers = << >>

\* _delayedDataRequest(d) on a loader that is pending with a longer delay
\* replaces its timeout by one of delay d, and changes nothing on a loader
\* pending with a delay of d or less or on an active loader
Preemption ==
  \A l \in LoaderIds : \A d \in Delays :
    LET ld == streamLoaders[l]
        after == delayedDataRequest(ld, d)
    IN  ld.constructed =>
          /\ OneTimer(ld) /\ OneTimer(after)
          /\ (ld.requestState = "pending" /\ d < ld.requestDelay) =>
                /\ after.requestState = "pending" /\ after.requestDelay = d
                /\ after = [ld EXCEPT !.requestDelay = d,
                                      !.requestId = after.requestId,
                                      !.timers = (after.requestId :> d)]
          /\ (ld.requestState = "pending" /\ d >= ld.requestDelay) => after = ld
          /\ ld.requestState = "active" => after = ld

\* The delay of a loader that stays pending does not grow
DelayNotLonger ==
  \A l \in LoaderIds :
    (streamLoaders[l].requestState = "pending"
       /\ streamLoaders'[l].requestState = "pending") =>
      streamLoaders'[l].requestDelay <= streamLoaders[l].requestDelay

\* C25: _delayedDataRequest(d) on a loader pending with delay D cancels the
\* timeout and arms one of delay d when d < D and changes nothing when
\* d >= D, and changes nothing on an active loader; at most one timeout is
\* armed and the delay of a pending loader never grows.
PendingPreemptible ==
  /\ []Preemption
  /\ [][DelayNotLonger]_vars

\* A loader waits for the timeout of errorDelay that a failed request
\* armed, and another is pending with delay 0.
BackoffPending ==
  \E l, k \in LoaderIds :
    /\ streamLoaders[l].requestState = "pending"
    /\ streamLoaders[l].requestDelay = errorDelay
    /\ streamLoaders[k].requestState = "pending"
    /\ streamLoaders[k].requestDelay = 0

\* this.state & bit
HasBit(x, bit) == (x \div bit) % 2 = 1

\* The state of every loader is one of 0, 1, 2, 3
StateInRange ==
  \A l \in LoaderIds : streamLoaders[l].state \in 0..(unloadedStateBit + errorStateBit)

\* The changes of the state bits of loader l in a step
StateBitsStep(l) ==
  LET a == streamLoaders[l]
      b == streamLoaders'[l]
      failed == a.phase = "request" /\ b.phase = "" /\ a.requestState = "active"
                  /\ b.requestState = "pending" /\ b.requestDelay = errorDelay
      decoded == a.phase = "header" /\ b.thrown = ""
                   /\ (b.phase = "processor" \/ ImmediateReload(b))
  IN  /\ (~a.constructed /\ b.constructed) => b.state = unloadedStateBit
      /\ (HasBit(a.state, unloadedStateBit) /\ ~HasBit(b.state, unloadedStateBit)) =>
           a.phase = "processor" /\ b.phase = "" /\ b.requestState = "idle"
      /\ (a.constructed /\ ~HasBit(a.state, unloadedStateBit)
            /\ HasBit(b.state, unloadedStateBit)) =>
           a.phase = "header" /\ ImmediateReload(b)
      /\ (~HasBit(a.state, errorStateBit) /\ HasBit(b.state, errorStateBit)) => failed
      /\ (HasBit(a.state, errorStateBit) /\ ~HasBit(b.state, errorStateBit)) =>
           a.phase = "header"
      /\ decoded => ~HasBit(b.state, errorStateBit)
      /\ failed => /\ HasBit(b.state, errorStateBit)
                   /\ HasBit(b.state, unloadedStateBit) = HasBit(a.state, unloadedStateBit)

\* C26: the state of a loader is always one of 0, 1, 2, 3; the unloaded
\* bit is set at construction, cleared only when the processor has handled
\* a response with a count, and set again only by a header without count;
\* the error bit is set only by a failed request and is clear once the next
\* header has been read; a failure leaves the unloaded bit as it was.
StateBits ==
  /\ []StateInRange
  /\ [][\A l \in LoaderIds : StateBitsStep(l)]_vars

\* A loader that had loaded its data has the error bit alone: a later
\* request failed.
ErrorAfterLoad ==
  \E l \in LoaderIds :
    /\ streamLoaders[l].state = errorStateBit
    /\ streamLoaders[l].requestState = "pending"
    /\ streamLoaders[l].requestDelay = errorDelay

\* C27: an idle loader (not destroyed) holds no notification with a
\* superseded timestamp above its own: when a cycle has returned to idle the
\* notification received during the cycle has been compared again and, if it
\* still exceeds, the immediate reload is armed, so the loader is pending.
NotificationRecompared ==
  \A l \in LoaderIds :
    (streamLoaders[l].pooled /\ streamLoaders[l].requestState = "idle") =>
      ~(/\ streamLoaders[l].statusEventData # NoEventData
        /\ Exceeds(streamLoaders[l], streamLoaders[l].statusEventData))

\* A notification received by an idle loader is compared at once and not
\* kept.
IdleNotificationConsumed ==
  \A l \in LoaderIds : \A data \in Superseded :
    (Listening(l) /\ streamLoaders[l].requestState = "idle") =>
      AfterStatusEvent(l, data).statusEventData = NoEventData

\* A catch-up timeout that runs while the specification is loading only
\* counts itself off; one that runs while it is loaded sends every waiting
\* processor the mirrored snapshot and the end of the stream and leaves no
\* processor waiting
CatchupOnlyWhenLoaded ==
  \A l \in DOMAIN specs :
    specs[l].timeouts > 0 =>
      LET spec == specs[l]
          after == catchupTimeout(spec)
      IN  /\ spec.state = "loading" => after = [spec EXCEPT !.timeouts = @ - 1]
          /\ spec.state = "loaded" =>
               /\ after.catchups = << >>
               /\ ForwarderProcessors(after.replay) = spec.catchups
               /\ \A i \in DOMAIN after.replay :
                    after.replay[i].got = spec.objects /\ after.replay[i].closed

\* Processors that wait for a catch-up of a loaded specification have a
\* timeout pending, and no load is running then: the snapshot is the one of
\* the last load
WaitingProcessorsServed ==
  \A l \in DOMAIN specs :
    specs[l].state = "loaded" =>
      /\ ~specs[l].running
      /\ specs[l].catchups # << >> => specs[l].timeouts > 0

\* The end of a load leaves the processors that wait for a catch-up
\* waiting, with one more timeout pending
LoadEndSchedulesCatchup ==
  \A l \in DOMAIN specs \cap DOMAIN specs' :
    (specs[l].state = "loading" /\ specs'[l].state = "loaded"
       /\ specs[l].catchups # << >>) =>
      /\ specs'[l].catchups = specs[l].catchups
      /\ specs'[l].timeouts = specs[l].timeouts + 1

\* C28: a catch-up timeout replays the snapshot only when the specification
\* is 'loaded'; when a load has started since it was set it delivers nothing
\* and leaves the waiting processors waiting, and the end of the load sets a
\* new timeout, which serves them from the snapshot of that load.
CatchupSuperseded ==
  /\ [](CatchupOnlyWhenLoaded /\ WaitingProcessorsServed)
  /\ [][LoadEndSchedulesCatchup]_vars

\* A processor referenced a loaded specification and a load has started
\* before its catch-up timeout runs: the timeout is pending while the
\* specification is loading, and the load serves the processor, which
\* still waits for its catch-up.
CatchupPendingInLoad ==
  \E l \in DOMAIN specs :
    /\ specs[l].state = "loading" /\ specs[l].running
    /\ specs[l].timeouts > 0
    /\ \E i \in DOMAIN specs[l].forwarders :
         specs[l].forwarders[i].processor \in Range(specs[l].catchups)

\* A run of the entity processor is made in this step
MergeRuns == merges' = merges + 1

\* The run of this step assigns a new bucket object to the property of the
\* container exactly if it staged an addition or a removal or the property
\* was undefined; otherwise the property refers to the same object, whose
\* content is as before, and no destroy() was called
PublishesOnChange ==
  MergeRuns =>
    LET staged == streamedDataProcessor(CurrentBucket, keyPrefix, entities, header)
        changed == \/ staged.toAdd # << >> \/ staged.toDestroy # {}
                   \/ container = Undefined
    IN  IF changed
        THEN /\ container' \notin DOMAIN bucketObjects \cup {Undefined}
             /\ container' \in DOMAIN bucketObjects'
        ELSE /\ container' = container
             /\ bucketObjects' = bucketObjects
             /\ destroyCalls' = destroyCalls

\* C29: a merge publishes a new bucket object if and only if it staged an
\* addition or a removal or the bucket was undefined; a merge that changes
\* nothing leaves the property on the same bucket object and calls no
\* destroy().
PublishIffChanged ==
  [][PublishesOnChange]_vars

\* A merge of a stream with an entity has run on a bucket that held that
\* entity, and the property still refers to the first bucket object.
MergeWithoutChange ==
  /\ merges >= 1 /\ container = 1 /\ Len(bucketObjects) = 1
  /\ bucketBefore = CurrentBucket /\ destroyCalls = << >>
  /\ \E i \in DOMAIN entities : KeyOkay(entities[i][1], keyPrefix) /\ entities[i][2] # Null

\* The stream without the rows whose key is not valid
WellFormed(stream) ==
  SelectSeq(stream, LAMBDA row : KeyOkay(row[1], keyPrefix))

\* The stream without its row number i
Without(stream, i) ==
  [j \in 1..(Len(stream) - 1) |-> IF j < i THEN stream[j] ELSE stream[j + 1]]

\* C30: a row whose key is not valid for the prefix is skipped: the run of
\* the processor stages and publishes what it does on the stream without
\* that row, and on the stream without all such rows.
MalformedRowSkipped ==
  LET run == streamedDataProcessor(CurrentBucket, keyPrefix, entities, header)
  IN  /\ run = streamedDataProcessor(CurrentBucket, keyPrefix, WellFormed(entities), header)
      /\ \A i \in DOMAIN entities \ ValidRows :
           run = streamedDataProcessor(CurrentBucket, keyPrefix,
                                       Without(entities, i), header)

\* A stream with a row whose key is not valid and a row with an entity
\* under a valid key has been merged, and the bucket holds the keys of the
\* valid rows only.
MalformedRowMerged ==
  /\ merges = 1 /\ CurrentBucket.defined
  /\ DOMAIN entities \ ValidRows # {}
  /\ StreamEntityKeys # {}
  /\ DOMAIN CurrentBucket.map = StreamEntityKeys


\* C31: a SharedEventSource constructed for a URL that already has a hub is
\* that hub: the table of hubs is returned as it is, and the constructor of
\* a further loader leaves one hub for the URL, with the open flag it had
\* and every listener registered before, in order, followed by the new one.
\* No hub exists for another URL.
ConstructorReturnsHub ==
  /\ DOMAIN sharedEventSources \subseteq {statusURL}
  /\ \A l \in LoaderIds :
       statusURL \in DOMAIN sharedEventSources /\ ~streamLoaders[l].constructed =>
         LET hub == sharedEventSources[statusURL]
             after == newLoader(LoaderState, l).sources
         IN  /\ sharedEventSource(sharedEventSources, statusURL) = sharedEventSources
             /\ DOMAIN after = {statusURL}
             /\ after[statusURL].open = hub.open
             /\ after[statusURL].listeners =
                  Append(hub.listeners, <<StatusEvents[l], l>>)
             /\ \A event \in Range(StatusEvents) \ {StatusEvents[l]} :
                  ListenersOf(after[statusURL], event) = ListenersOf(hub, event)
             /\ ListenersOf(after[statusURL], StatusEvents[l]) =
                  Append(ListenersOf(hub, StatusEvents[l]), l)

\* Both loaders were constructed on the one hub, which is open and holds
\* the listener of each
TwoLoadersOneHub ==
  /\ \A l \in LoaderIds : streamLoaders[l].constructed /\ streamLoaders[l].pooled
  /\ DOMAIN sharedEventSources = {statusURL}
  /\ sharedEventSources[statusURL].open
  /\ sharedEventSources[statusURL].listeners = <<<<"/a", 1>>, <<"/b", 2>>>>


\* C32: a processor that was dereferenced and not referenced again is not
\* invoked again: in every reachable state the processor list that the next
\* load would invoke, and the processors that a pending catch-up timeout
\* would invoke when it fires on a loaded specification, are processors
\* still registered with the specification.
DereferencedNeverInvoked ==
  \A l \in DOMAIN specs :
    /\ Range(ForwarderProcessors(
         sharedProcessorStart(specs[l], << >>, [update |-> FALSE]).forwarders))
         \subseteq Range(specs[l].processors)
    /\ specs[l].timeouts > 0 /\ specs[l].state = "loaded" =>
         Range(ForwarderProcessors(catchupTimeout(specs[l]).replay))
           \subseteq Range(specs[l].processors)

\* The last processor of a loaded specification was dereferenced and the
\* specification deleted while the catch-up timeout for a processor is
\* pending: the timeout will invoke it
CatchupAfterDelete ==
  \E l \in DOMAIN specs :
    /\ l \notin Range(dataLoaders)
    /\ specs[l].processors = << >>
    /\ specs[l].timeouts > 0 /\ specs[l].state = "loaded"
    /\ catchupTimeout(specs[l]).replay # << >>


\* C33: a processor that joined late is not handed both the live stream of
\* a load cycle and the catch-up replay of the snapshot of that cycle: when
\* every processor of a specification was referenced once, no processor has
\* a forwarder of the last load cycle and one of the catch-up made since.
JoinerServedOnce ==
  \A l \in DOMAIN specs :
    Len(specs[l].processors) = referenceCount =>
      Range(ForwarderProcessors(specs[l].forwarders))
        \cap Range(ForwarderProcessors(specs[l].replay)) = {}

\* A burst of joiners of a loaded specification: each call sets a timeout,
\* the first timeout replays once to each processor waiting and the others
\* find no processor waiting
BurstReplayedOnce ==
  \A l \in Range(dataLoaders) :
    specs[l].state = "loaded" /\ ~specs[l].running =>
      LET s0 == specs[l]
          rg1 == referenceDataLoader(Registry, s0.Subclass, CfgA, "p1", NoTarget).registry
          rg2 == referenceDataLoader(rg1, s0.Subclass, CfgA2, "p2", NoTarget).registry
          s2 == rg2.specs[l]
          s3 == catchupTimeout(s2)
          s4 == catchupTimeout(s3)
      IN  /\ s2.timeouts = s0.timeouts + 2
          /\ {"p1", "p2"} \subseteq Range(s2.catchups)
          /\ NoDuplicates(ForwarderProcessors(s3.replay))
          /\ Range(ForwarderProcessors(s3.replay)) = Range(s2.catchups)
          /\ s3.catchups = << >>
          /\ s4.replay = << >> /\ s4.catchups = << >>

\* Both processors were referenced once; the second joined late, was given
\* the live stream of the next load cycle and then the catch-up replay
JoinerServedTwice ==
  \E l \in Range(dataLoaders) :
    /\ Len(specs[l].processors) = 2 /\ referenceCount = 2
    /\ specs[l].state = "loaded"
    /\ "p2" \in Range(ForwarderProcessors(specs[l].forwarders))
    /\ "p2" \in Range(ForwarderProcessors(specs[l].replay))


\* The last valid row of the stream for the local key k
LastRow(k) ==
  CHOOSE i \in ValidRows :
    /\ LocalKey(entities[i][1], keyPrefix) = k
    /\ \A j \in ValidRows : LocalKey(entities[j][1], keyPrefix) = k => j <= i

\* C34: within one merge the last pair for a key wins: after the merge the
\* bucket holds, for every key of the stream, the value of the last valid
\* pair of that key, or does not hold the key when that value is null,
\* whatever the bucket held before.
LastPairWins ==
  merges = 1 =>
    \A k \in StreamKeys :
      LET entity == entities[LastRow(k)][2]
      IN  IF entity = Null THEN k \notin DOMAIN CurrentBucket.map
          ELSE /\ k \in DOMAIN CurrentBucket.map
               /\ CurrentBucket.map[k].val = entity.val

\* The stream [[test.a, 1], [test.a, null]] was merged into a container
\* without bucket, and the bucket published holds a
EarlierPairWins ==
  /\ merges = 1 /\ keyPrefix = "test" /\ bucketBefore = UndefinedBucket
  /\ [i \in DOMAIN entities |-> <<entities[i][1], entities[i][2].val>>]
       = << <<<<"test", "a">>, 1>>, <<<<"test", "a">>, 0>> >>
  /\ DOMAIN CurrentBucket.map = {<<"a">>}
  /\ CurrentBucket.map[<<"a">>].val = 1


\* A step of a loader that was destroyed before: it does not enter the
\* active request state, creates no request, does not call the processor
\* and sets no timeout
DestroyedStep(l) ==
  l \in destroyed =>
    /\ streamLoaders'[l].requestState = "active" => streamLoaders[l].requestState = "active"
    /\ \A r \in DOMAIN requests' \ DOMAIN requests : requests'[r].context # l
    /\ streamLoaders'[l].phase = "processor" => streamLoaders[l].phase = "processor"
    /\ DOMAIN streamLoaders'[l].timers \subseteq DOMAIN streamLoaders[l].timers

\* C35: after destroy() a loader never enters the active request state
\* again and starts no request: a timeout that was pending starts no cycle,
\* and what arrives afterwards neither invokes the processor nor sets a
\* timeout.
DestroyedLoaderInert ==
  [][\A l \in LoaderIds : DestroyedStep(l)]_vars

\* A loader was destroyed before its first timeout fired; the timeout has
\* fired, the loader is active and no request was made
ActiveAfterDestroy ==
  \E l \in LoaderIds :
    /\ l \in destroyed /\ created = 0
    /\ streamLoaders[l].requestState = "active"
    /\ streamLoaders[l].thrown = "TypeError"
    /\ streamLoaders[l].timers = << >>


\* The request r, canceled while it was queued (no fetch was issued for
\* it), is not moved into the active set and no fetch is issued for it
StaysUnstarted(r) ==
  (r \in DOMAIN requests' /\ fetches[r] = "none") =>
    /\ fetches'[r] = "none"
    /\ \A n \in DOMAIN pools' : r \notin pools'[n].active

\* C36: a request canceled while it was still queued, by cancel() or
\* through PooledDataRequest.destroy(), is never started afterwards: no
\* later step moves it into the active set or issues its fetch.
CanceledNeverStarted ==
  [][\A r \in canceled : StaysUnstarted(r)]_vars

\* The same for the requests canceled by cancel() alone, whose context was
\* not destroyed
CanceledDirectlyNeverStarted ==
  [][\A r \in canceled : requests[r].context \notin destroyed => StaysUnstarted(r)]_vars

\* The request of a destroyed context, canceled while queued and rejected,
\* is active with its fetch in flight
CanceledRequestStarted ==
  \E r \in canceled :
    /\ requests[r].context \in destroyed
    /\ requests[r].promise = "rejected"
    /\ fetches[r] = "inflight"
    /\ r \in pools[requests[r].pool].active


\* The scheduling of a request cycle: the transport answers the request,
\* the read of the header line settles and the processor's promise settles
FairLoader ==
  \A l \in LoaderIds :
    /\ WF_vars(LoaderResponseOk(l) \/ \E r \in DOMAIN requests : LoaderRequestFails(l, r))
    /\ WF_vars(\/ \E hdr \in Headers : HeaderRead(l, hdr)
               \/ HeaderEmpty(l) \/ HeaderFails(l))
    /\ WF_vars(ProcessorResolves(l) \/ ProcessorRejects(l))

FairSpecLoader == InitLoader /\ [][NextLoader]_vars /\ FairLoader

\* C37: every request cycle of a loader that becomes active eventually
\* leaves the active state with its pooled request released, when the
\* transport answers, the read of the header settles and the processor
\* settles; a loader that is destroyed meanwhile is not required to.
ActiveCycleEnds ==
  \A l \in LoaderIds :
    (streamLoaders[l].requestState = "active" /\ streamLoaders[l].pooled)
      ~> \/ ~streamLoaders[l].pooled
         \/ /\ streamLoaders[l].requestState # "active"
            /\ dataRequest[l] = Undefined

\* A loader that was not destroyed is active and holds its request, the
\* chain that read the response has ended with an error no handler saw, and
\* nothing is left that would end the cycle
CycleStuckActive ==
  \E l \in LoaderIds :
    /\ streamLoaders[l].pooled /\ streamLoaders[l].requestState = "active"
    /\ streamLoaders[l].phase = "" /\ streamLoaders[l].thrown # ""
    /\ streamLoaders[l].timers = << >>
    /\ dataRequest[l] # Undefined
    /\ requests[dataRequest[l]].promise = "resolved"


\* C38: in every reachable state of a loader a timeout is set if and only
\* if the request state is pending, and its coordinator holds a request
\* only while the request state is active; so the callback of a timeout
\* finds no outstanding request, and queueDataRequest never throws
\* 'already active'.
RequestOnlyWhileActive ==
  \A l \in LoaderIds :
    LET ld == streamLoaders[l]
    IN  /\ ld.timers # << >> <=> ld.requestState = "pending"
        /\ dataRequest[l] # Undefined => ld.requestState = "active"
        /\ ld.thrown # "already active"
        /\ \A id \in DOMAIN ld.timers :
             /\ dataRequest[l] = Undefined
             /\ timeoutCallback(LoaderState, l, id).loaders[l].thrown # "already active"

\* A loader has loaded data, a later notification or retry has set its
\* timeout again, and its coordinator holds no request
RearmedAfterCycle ==
  \E l \in LoaderIds :
    /\ streamLoaders[l].pooled /\ streamLoaders[l].requestState = "pending"
    /\ streamLoaders[l].timers # << >>
    /\ streamLoaders[l].timestamps # << >>
    /\ streamLoaders[l].thrown = ""
    /\ dataRequest[l] = Undefined /\ created >= 1


\* C39: a loader stays alive while a reference to it is outstanding, also
\* when one processor was passed in two referenceDataLoader calls: after
\* the two calls of one client for a specification (its target counts 2
\* and no other call was made), one dereferenceDataLoader that returns true
\* leaves the specification in the registry and the loader not destroyed.
ReferencedLoaderAlive ==
  \A l \in Range(dataLoaders) : \A c \in Clients :
    (/\ referenceCount = 2
     /\ c.target # NoTarget /\ c.target \in DOMAIN specs[l].targets
     /\ specs[l].targets[c.target] = 2) =>
      LET d == dereferenceDataLoader(Registry, l, c.processor, c.target)
      IN  d.value => /\ l \in Range(d.registry.dataLoaders)
                     /\ d.registry.loaders[l].destroys = 0

\* One client has referenced a loader twice with its processor: the target
\* counts 2 and the processor set holds the processor once
ReferencedTwice ==
  \E l \in Range(dataLoaders) :
    /\ referenceCount = 2
    /\ specs[l].processors = <<"p1">>
    /\ specs[l].targets = ("document" :> 2)
    /\ loaders[l].destroys = 0


\* C40: a merge never modifies a bucket object that was already published:
\* every bucket object that existed before a run of the processor has the
\* same keys and values after it, and only the object published by the run
\* holds the changes.
PublishedBucketKept ==
  [][MergeRuns => \A b \in DOMAIN bucketObjects : bucketObjects'[b] = bucketObjects[b]]_vars

\* A merge has staged changes on a container that had a bucket: the object
\* the property referred to before the merge and the copy published hold
\* the same merged content, which is not the content of before
PublishedBucketModified ==
  /\ merges = 1 /\ bucketBefore.defined
  /\ container = 2 /\ Len(bucketObjects) = 2
  /\ bucketObjects[1] = bucketObjects[2]
  /\ bucketObjects[1] # bucketBefore.map

=============================================================================
